---------------------------- MODULE Spec2Model ----------------------------
(***************************************************************************)
(* Norm-compliance reasoning engine of the MAS explainability pipeline:    *)
(* role inference and applicability (phase2_analysis/norm_matcher.py),     *)
(* compliance evaluation (phase2_analysis/compliance_checker.py), the      *)
(* orchestrator (main.py), the ingestion of the norms and log files        *)
(* (phase1_parsing) and the profile built from the verdicts                *)
(* (phase3_understanding/system_profiler.py).                              *)
(*                                                                         *)
(* Python strings are sequences of one-character strings, so that          *)
(* lower(), replace(), strip(), split(), re.sub() and the `in` substring   *)
(* test are computed character by character as the code computes them.     *)
(* Python's None is the value None below; norm ids and enum values, which  *)
(* the engine only compares for equality, are TLA+ strings.                *)
(***************************************************************************)
EXTENDS Integers, Sequences, FiniteSets, TLC

VARIABLES
    norms,                \* parsed_norms.json "norms": list of Norm dicts
    log_entries,          \* parsed_logs.json "entries": list of LogEntry dicts
    agents,               \* NormMatcher.agents
    role_mapping,         \* result of NormMatcher.build_role_mapping (dict, in insertion order)
    applicability_matrix, \* the matrix handed to ComplianceChecker
    agent_actions,        \* ComplianceChecker.agent_actions (dict, in insertion order)
    compliance_results,   \* result of ComplianceChecker.check_all_compliance
    pc,                   \* position of the run
    call,                 \* the last method invoked on a constructed object, with its arguments
    ret,                  \* the value that invocation returned
    prev,                 \* history: what the same invocation returned before a reload or repeat
    tasks,                \* the (norm, agent) evaluations handed to workers, in submission order
    raw_norms,            \* the norms file: its suffix and the records read from it
    raw_logs,             \* the records read from the log file, in file order
    temporal_strategy,    \* parsed_logs.json "temporal_strategy"
    profile               \* the SystemProfile built in phase 3

vars == <<norms, log_entries, agents, role_mapping, applicability_matrix,
          agent_actions, compliance_results, pc, call, ret, prev, tasks,
          raw_norms, raw_logs, temporal_strategy, profile>>

-----------------------------------------------------------------------------
(* Bounds of the model *)

MaxNorms == 2

MaxLog == 2

MaxLen == 3

\* records in a log file whose temporal strategy is detected
MaxRaw == 5

-----------------------------------------------------------------------------
(* Python values *)

None == <<"None">>

NoneNum == <<>>

Some(n) == <<n>>

\* Python truthiness of an Optional[str]: None and "" are falsy.
Truthy(s) == s # None /\ s # <<>>

\* `a or b` on Optional[str] values.
Or(a, b) == IF Truthy(a) THEN a ELSE b

UpperCase == <<"A", "B", "C", "D", "E", "F", "G", "H", "I", "J", "K", "L", "M",
               "N", "O", "P", "Q", "R", "S", "T", "U", "V", "W", "X", "Y", "Z">>

LowerCase == <<"a", "b", "c", "d", "e", "f", "g", "h", "i", "j", "k", "l", "m",
               "n", "o", "p", "q", "r", "s", "t", "u", "v", "w", "x", "y", "z">>

Digits == {"0", "1", "2", "3", "4", "5", "6", "7", "8", "9"}

Range(f) == {f[i] : i \in DOMAIN f}

\* str.isspace for one character
IsSpace(c) == c \in {" ", "\t", "\n"}

\* the regex class \w: letters, digits and the underscore
WordChars == Range(UpperCase) \cup Range(LowerCase) \cup Digits \cup {"_"}

IsWordChar(c) == c \in WordChars

ToLower == [c \in Range(UpperCase) |->
              LowerCase[CHOOSE i \in DOMAIN UpperCase : UpperCase[i] = c]]

LowerChar(c) == IF c \in DOMAIN ToLower THEN ToLower[c] ELSE c

\* str.lower()
lower(s) == [i \in 1..Len(s) |-> LowerChar(s[i])]

\* str.replace(old, new) for one-character old and new
replace(s, old, new) == [i \in 1..Len(s) |-> IF s[i] = old THEN new ELSE s[i]]

\* str.strip()
strip(s) ==
    LET keep == {i \in 1..Len(s) : ~IsSpace(s[i])}
    IN  IF keep = {} THEN <<>>
        ELSE SubSeq(s, CHOOSE i \in keep : \A j \in keep : i <= j,
                       CHOOSE i \in keep : \A j \in keep : j <= i)

\* the Python test `a in b` on strings
contains(a, b) == \E i \in 0..(Len(b) - Len(a)) : SubSeq(b, i + 1, i + Len(a)) = a

\* str.split(): the maximal runs of non-whitespace characters, in order
RECURSIVE splitFrom(_, _)
splitFrom(s, i) ==
    IF i > Len(s) THEN <<>>
    ELSE IF IsSpace(s[i]) THEN splitFrom(s, i + 1)
    ELSE LET stop == CHOOSE j \in i..Len(s) :
                        /\ \A k \in i..j : ~IsSpace(s[k])
                        /\ (j = Len(s) \/ IsSpace(s[j + 1]))
         IN  <<SubSeq(s, i, stop)>> \o splitFrom(s, stop + 1)

split(s) == splitFrom(s, 1)

-----------------------------------------------------------------------------
(* phase2_analysis/norm_matcher.py *)

\* re.sub(r'[^\w\s]', '', s.lower()).strip()
_normalize_string(s) ==
    IF ~Truthy(s) THEN <<>>
    ELSE strip(SelectSeq(lower(s), LAMBDA c : IsWordChar(c) \/ IsSpace(c)))

_fuzzy_role_match(agent_id, role) ==
    IF ~Truthy(role) THEN [matches |-> FALSE, confidence |-> "no_role"]
    ELSE LET agent_norm == _normalize_string(agent_id)
             role_norm == _normalize_string(role)
             role_parts == split(role_norm)
         IN  IF agent_norm = role_norm
                THEN [matches |-> TRUE, confidence |-> "exact"]
             ELSE IF contains(role_norm, agent_norm)
                THEN [matches |-> TRUE, confidence |-> "substring"]
             ELSE IF contains(agent_norm, role_norm)
                THEN [matches |-> TRUE, confidence |-> "substring_reverse"]
             ELSE IF \E k \in DOMAIN role_parts : contains(role_parts[k], agent_norm)
                THEN [matches |-> TRUE, confidence |-> "partial"]
             ELSE [matches |-> FALSE, confidence |-> "no_match"]

\* variant: the first role that matches is kept whatever comes later
RECURSIVE inferLoop_first_match(_, _, _, _, _)
inferLoop_first_match(ns, i, agent_id, best_match, best_confidence) ==
    IF i > Len(ns) THEN [best_match |-> best_match, best_confidence |-> best_confidence]
    ELSE LET role == ns[i].role
             m == _fuzzy_role_match(agent_id, role)
         IN  IF ~Truthy(role) \/ ~m.matches
                THEN inferLoop_first_match(ns, i + 1, agent_id, best_match, best_confidence)
             ELSE IF best_match = None
                THEN inferLoop_first_match(ns, i + 1, agent_id, role, m.confidence)
             ELSE inferLoop_first_match(ns, i + 1, agent_id, best_match, best_confidence)

\* the loop of infer_agent_role over ns[i..], carrying best_match and best_confidence
RECURSIVE inferLoop(_, _, _, _, _)
inferLoop(ns, i, agent_id, best_match, best_confidence) ==
    IF i > Len(ns) THEN [best_match |-> best_match, best_confidence |-> best_confidence]
    ELSE LET role == ns[i].role
             m == _fuzzy_role_match(agent_id, role)
         IN  IF ~Truthy(role) \/ ~m.matches
                THEN inferLoop(ns, i + 1, agent_id, best_match, best_confidence)
             ELSE IF m.confidence = "exact" \/ best_match = None
                THEN inferLoop(ns, i + 1, agent_id, role, m.confidence)
             ELSE IF m.confidence \in {"substring", "substring_reverse"}
                     /\ best_confidence = "partial"
                THEN inferLoop(ns, i + 1, agent_id, role, m.confidence)
             ELSE inferLoop(ns, i + 1, agent_id, best_match, best_confidence)

infer_agent_role(agent_id) ==
    LET best == inferLoop(norms, 1, agent_id, None, "none")
    IN  IF best.best_match # None
        THEN [agent_id |-> agent_id,
              inferred_role |-> best.best_match,
              confidence |-> best.best_confidence,
              evidence |-> [kind |-> "matched", agent |-> agent_id,
                            role |-> best.best_match, via |-> best.best_confidence]]
        ELSE [agent_id |-> agent_id,
              inferred_role |-> None,
              confidence |-> "unknown",
              evidence |-> [kind |-> "no_role_match", agent |-> agent_id,
                            role |-> None, via |-> "unknown"]]

\* next((n for n in self.norms if n['norm_id'] == norm_id), None)
HasNorm(norm_id) == \E i \in DOMAIN norms : norms[i].norm_id = norm_id

FindNorm(norm_id) ==
    norms[CHOOSE i \in DOMAIN norms :
            /\ norms[i].norm_id = norm_id
            /\ \A j \in 1..(i - 1) : norms[j].norm_id # norm_id]

\* variant: only an absent role (None) counts as no role requirement
check_norm_applicability_none_only(norm_id, agent_id) ==
    IF ~HasNorm(norm_id)
    THEN [norm_id |-> norm_id, agent_id |-> agent_id, applies |-> FALSE,
          reason |-> [kind |-> "norm_not_found", role |-> None,
                      required |-> None, confidence |-> "none"]]
    ELSE LET required_role == FindNorm(norm_id).role
             mapping == infer_agent_role(agent_id)
         IN  IF required_role = None
             THEN [norm_id |-> norm_id, agent_id |-> agent_id, applies |-> TRUE,
                   reason |-> [kind |-> "no_role_requirement", role |-> None,
                               required |-> None, confidence |-> "none"]]
             ELSE [norm_id |-> norm_id, agent_id |-> agent_id,
                   applies |-> (mapping.inferred_role = required_role),
                   reason |-> [kind |-> "role_compared", role |-> mapping.inferred_role,
                               required |-> required_role,
                               confidence |-> mapping.confidence]]

\* variant: the agent id is matched against the norm's role directly
check_norm_applicability_fuzzy(norm_id, agent_id) ==
    IF ~HasNorm(norm_id)
    THEN [norm_id |-> norm_id, agent_id |-> agent_id, applies |-> FALSE,
          reason |-> [kind |-> "norm_not_found", role |-> None,
                      required |-> None, confidence |-> "none"]]
    ELSE LET required_role == FindNorm(norm_id).role
             m == _fuzzy_role_match(agent_id, required_role)
         IN  IF ~Truthy(required_role)
             THEN [norm_id |-> norm_id, agent_id |-> agent_id, applies |-> TRUE,
                   reason |-> [kind |-> "no_role_requirement", role |-> None,
                               required |-> None, confidence |-> "none"]]
             ELSE [norm_id |-> norm_id, agent_id |-> agent_id, applies |-> m.matches,
                   reason |-> [kind |-> "role_matched", role |-> required_role,
                               required |-> required_role, confidence |-> m.confidence]]

\* variant: the inferred role and the required role are compared after normalization
check_norm_applicability_normalized(norm_id, agent_id) ==
    IF ~HasNorm(norm_id)
    THEN [norm_id |-> norm_id, agent_id |-> agent_id, applies |-> FALSE,
          reason |-> [kind |-> "norm_not_found", role |-> None,
                      required |-> None, confidence |-> "none"]]
    ELSE LET required_role == FindNorm(norm_id).role
             mapping == infer_agent_role(agent_id)
         IN  IF ~Truthy(required_role)
             THEN [norm_id |-> norm_id, agent_id |-> agent_id, applies |-> TRUE,
                   reason |-> [kind |-> "no_role_requirement", role |-> None,
                               required |-> None, confidence |-> "none"]]
             ELSE [norm_id |-> norm_id, agent_id |-> agent_id,
                   applies |-> (_normalize_string(mapping.inferred_role)
                                   = _normalize_string(required_role)),
                   reason |-> [kind |-> "role_compared", role |-> mapping.inferred_role,
                               required |-> required_role,
                               confidence |-> mapping.confidence]]

check_norm_applicability(norm_id, agent_id) ==
    IF ~HasNorm(norm_id)
    THEN [norm_id |-> norm_id, agent_id |-> agent_id, applies |-> FALSE,
          reason |-> [kind |-> "norm_not_found", role |-> None,
                      required |-> None, confidence |-> "none"]]
    ELSE LET required_role == FindNorm(norm_id).role
             mapping == infer_agent_role(agent_id)
         IN  IF ~Truthy(required_role)
             THEN [norm_id |-> norm_id, agent_id |-> agent_id, applies |-> TRUE,
                   reason |-> [kind |-> "no_role_requirement", role |-> None,
                               required |-> None, confidence |-> "none"]]
             ELSE IF mapping.inferred_role = required_role
             THEN [norm_id |-> norm_id, agent_id |-> agent_id, applies |-> TRUE,
                   reason |-> [kind |-> "role_matches", role |-> mapping.inferred_role,
                               required |-> required_role,
                               confidence |-> mapping.confidence]]
             ELSE [norm_id |-> norm_id, agent_id |-> agent_id, applies |-> FALSE,
                   reason |-> [kind |-> "role_does_not_match",
                               role |-> mapping.inferred_role,
                               required |-> required_role, confidence |-> "none"]]

\* build_role_mapping: one entry per element of self.agents, in that order
build_role_mapping == [k \in 1..Len(agents) |-> infer_agent_role(agents[k])]

\* build_applicability_matrix: norms in the outer loop, self.agents in the inner loop
build_applicability_matrix ==
    [k \in 1..(Len(norms) * Len(agents)) |->
        check_norm_applicability(norms[((k - 1) \div Len(agents)) + 1].norm_id,
                                 agents[((k - 1) % Len(agents)) + 1])]

-----------------------------------------------------------------------------
(* phase2_analysis/compliance_checker.py *)

\* _build_agent_action_index over the entries es[i..]: idx is the dict built so
\* far, a sequence of (key, value) items in insertion order
RECURSIVE indexLoop(_, _, _)
indexLoop(es, i, idx) ==
    IF i > Len(es) THEN idx
    ELSE LET e == es[i]
             item == [entry_id |-> e.entry_id, action |-> e.action,
                      timestamp |-> e.timestamp,
                      sequence_number |-> e.sequence_number]
             with_key == IF \E k \in DOMAIN idx : idx[k].agent_id = e.agent_id
                         THEN idx
                         ELSE Append(idx, [agent_id |-> e.agent_id, actions |-> <<>>])
         IN  indexLoop(es, i + 1,
                 [k \in DOMAIN with_key |->
                     IF with_key[k].agent_id = e.agent_id
                     THEN [with_key[k] EXCEPT !.actions = Append(@, item)]
                     ELSE with_key[k]])

_build_agent_action_index(es) == indexLoop(es, 1, <<>>)

\* index.get(agent_id, []) on a dict built by _build_agent_action_index
ActionsOf(index, agent_id) ==
    IF \E k \in DOMAIN index : index[k].agent_id = agent_id
    THEN index[CHOOSE k \in DOMAIN index : index[k].agent_id = agent_id].actions
    ELSE <<>>

\* list(self.agent_actions.keys())
AgentKeys == [k \in DOMAIN agent_actions |-> agent_actions[k].agent_id]

\* variant: hyphens are turned into spaces, underscores are not
_normalize_action_or_mission_keep_underscore(s) ==
    IF ~Truthy(s) THEN <<>>
    ELSE strip(replace(lower(s), "-", " "))

\* variant: the string is not lowercased
_normalize_action_or_mission_no_lower(s) ==
    IF ~Truthy(s) THEN <<>>
    ELSE strip(replace(replace(s, "_", " "), "-", " "))

_normalize_action_or_mission(s) ==
    IF ~Truthy(s) THEN <<>>
    ELSE strip(replace(replace(lower(s), "_", " "), "-", " "))

\* variant: the keyword overlap must exceed half of the mission's words
_mission_action_match_strict_overlap(action, mission) ==
    IF ~Truthy(mission) THEN [matches |-> FALSE, match_type |-> "no_mission"]
    ELSE LET action_norm == _normalize_action_or_mission(action)
             mission_norm == _normalize_action_or_mission(mission)
             mission_words == Range(split(mission_norm))
             action_words == Range(split(action_norm))
             overlap == mission_words \cap action_words
         IN  IF action_norm = mission_norm
                THEN [matches |-> TRUE, match_type |-> "exact"]
             ELSE IF contains(mission_norm, action_norm)
                THEN [matches |-> TRUE, match_type |-> "contains_mission"]
             ELSE IF contains(action_norm, mission_norm)
                THEN [matches |-> TRUE, match_type |-> "mission_contains_action"]
             ELSE IF 2 * Cardinality(overlap) > Cardinality(mission_words)
                THEN [matches |-> TRUE, match_type |-> "keyword_overlap"]
             ELSE [matches |-> FALSE, match_type |-> "no_match"]

\* variant: the keyword overlap is tested before the two containment tests
_mission_action_match_overlap_first(action, mission) ==
    IF ~Truthy(mission) THEN [matches |-> FALSE, match_type |-> "no_mission"]
    ELSE LET action_norm == _normalize_action_or_mission(action)
             mission_norm == _normalize_action_or_mission(mission)
             mission_words == Range(split(mission_norm))
             action_words == Range(split(action_norm))
             overlap == mission_words \cap action_words
         IN  IF action_norm = mission_norm
                THEN [matches |-> TRUE, match_type |-> "exact"]
             ELSE IF 2 * Cardinality(overlap) >= Cardinality(mission_words)
                THEN [matches |-> TRUE, match_type |-> "keyword_overlap"]
             ELSE IF contains(mission_norm, action_norm)
                THEN [matches |-> TRUE, match_type |-> "contains_mission"]
             ELSE IF contains(action_norm, mission_norm)
                THEN [matches |-> TRUE, match_type |-> "mission_contains_action"]
             ELSE [matches |-> FALSE, match_type |-> "no_match"]

_mission_action_match(action, mission) ==
    IF ~Truthy(mission) THEN [matches |-> FALSE, match_type |-> "no_mission"]
    ELSE LET action_norm == _normalize_action_or_mission(action)
             mission_norm == _normalize_action_or_mission(mission)
             mission_words == Range(split(mission_norm))
             action_words == Range(split(action_norm))
             overlap == mission_words \cap action_words
         IN  IF action_norm = mission_norm
                THEN [matches |-> TRUE, match_type |-> "exact"]
             ELSE IF contains(mission_norm, action_norm)
                THEN [matches |-> TRUE, match_type |-> "contains_mission"]
             ELSE IF contains(action_norm, mission_norm)
                THEN [matches |-> TRUE, match_type |-> "mission_contains_action"]
             ELSE IF 2 * Cardinality(overlap) >= Cardinality(mission_words)
                THEN [matches |-> TRUE, match_type |-> "keyword_overlap"]
             ELSE [matches |-> FALSE, match_type |-> "no_match"]

\* variant: the record is looked up by norm_id alone
_is_norm_applicable_any_agent(norm_id, agent_id) ==
    LET hits == {k \in DOMAIN applicability_matrix :
                    applicability_matrix[k].norm_id = norm_id}
    IN  IF hits = {} THEN FALSE
        ELSE applicability_matrix[CHOOSE k \in hits : \A j \in hits : k <= j].applies

_is_norm_applicable(norm_id, agent_id) ==
    LET hits == {k \in DOMAIN applicability_matrix :
                    /\ applicability_matrix[k].norm_id = norm_id
                    /\ applicability_matrix[k].agent_id = agent_id}
    IN  IF hits = {} THEN FALSE
        ELSE applicability_matrix[CHOOSE k \in hits : \A j \in hits : k <= j].applies

\* variant: every evidence item is tagged exact
Evidence_always_exact(action_entry, match_type, tag, target) ==
    [entry_id |-> action_entry.entry_id,
     action |-> action_entry.action,
     match_type |-> "exact",
     target_key |-> tag,
     target |-> target,
     timestamp |-> action_entry.timestamp,
     sequence_number |-> action_entry.sequence_number]

\* one evidence dict; `tag` is the key that names the target
\* (matched_to, violated_prohibition or used_permission)
Evidence(action_entry, match_type, tag, target) ==
    [entry_id |-> action_entry.entry_id,
     action |-> action_entry.action,
     match_type |-> match_type,
     target_key |-> tag,
     target |-> target,
     timestamp |-> action_entry.timestamp,
     sequence_number |-> action_entry.sequence_number]

\* the evidence one loop iteration appends for one target
EvidenceFor(action_entry, tag, target) ==
    LET m == _mission_action_match(action_entry.action, target)
    IN  IF Truthy(target) /\ m.matches
        THEN <<Evidence(action_entry, m.match_type, tag, target)>>
        ELSE <<>>

Verdict(norm_id, agent_id, status, evidence, kind, target) ==
    [norm_id |-> norm_id, agent_id |-> agent_id, status |-> status,
     evidence |-> evidence,
     reasoning |-> [kind |-> kind, count |-> Len(evidence), target |-> target]]

\* the obligation loop over actions[i..]
RECURSIVE obligationLoop(_, _, _, _)
obligationLoop(actions, i, mission, required_action) ==
    IF i > Len(actions) THEN <<>>
    ELSE EvidenceFor(actions[i], "matched_to", mission)
         \o EvidenceFor(actions[i], "matched_to", required_action)
         \o obligationLoop(actions, i + 1, mission, required_action)

\* variant: the obligation is tested against norm.mission only
check_obligation_mission_only(norm, agent_id, actions) ==
    LET evidence == obligationLoop(actions, 1, norm.mission, None)
    IN  IF evidence # <<>>
        THEN Verdict(norm.norm_id, agent_id, "fulfilled", evidence,
                     "found_fulfilling", Or(norm.mission, norm.action))
        ELSE Verdict(norm.norm_id, agent_id, "violated", <<>>,
                     "none_fulfilling", Or(norm.mission, norm.action))

check_obligation(norm, agent_id, actions) ==
    LET evidence == obligationLoop(actions, 1, norm.mission, norm.action)
        fulfilled == evidence # <<>>
    IN  IF fulfilled
        THEN Verdict(norm.norm_id, agent_id, "fulfilled", evidence,
                     "found_fulfilling", Or(norm.mission, norm.action))
        ELSE Verdict(norm.norm_id, agent_id, "violated", <<>>,
                     "none_fulfilling", Or(norm.mission, norm.action))

\* variant: the prohibition loop stops at the first violation
RECURSIVE prohibitionLoop_first_only(_, _, _)
prohibitionLoop_first_only(actions, i, required_action) ==
    IF i > Len(actions) THEN <<>>
    ELSE IF EvidenceFor(actions[i], "violated_prohibition", required_action) # <<>>
    THEN EvidenceFor(actions[i], "violated_prohibition", required_action)
    ELSE prohibitionLoop_first_only(actions, i + 1, required_action)

\* the prohibition loop over actions[i..]
RECURSIVE prohibitionLoop(_, _, _)
prohibitionLoop(actions, i, required_action) ==
    IF i > Len(actions) THEN <<>>
    ELSE EvidenceFor(actions[i], "violated_prohibition", required_action)
         \o prohibitionLoop(actions, i + 1, required_action)

\* variant: the two statuses of the prohibition branch are exchanged
check_prohibition_swapped(norm, agent_id, actions) ==
    LET evidence == prohibitionLoop(actions, 1, norm.action)
    IN  IF evidence # <<>>
        THEN Verdict(norm.norm_id, agent_id, "fulfilled", evidence,
                     "performed_prohibited", norm.action)
        ELSE Verdict(norm.norm_id, agent_id, "violated", <<>>,
                     "did_not_perform_prohibited", norm.action)

check_prohibition(norm, agent_id, actions) ==
    LET evidence == prohibitionLoop(actions, 1, norm.action)
        violated == evidence # <<>>
    IN  IF violated
        THEN Verdict(norm.norm_id, agent_id, "violated", evidence,
                     "performed_prohibited", norm.action)
        ELSE Verdict(norm.norm_id, agent_id, "fulfilled", <<>>,
                     "did_not_perform_prohibited", norm.action)

\* the permission loop over actions[i..]; target = required_action or mission
RECURSIVE permissionLoop(_, _, _)
permissionLoop(actions, i, target) ==
    IF i > Len(actions) THEN <<>>
    ELSE EvidenceFor(actions[i], "used_permission", target)
         \o permissionLoop(actions, i + 1, target)

\* variant: target = mission or required_action
check_permission_mission_first(norm, agent_id, actions) ==
    LET target == Or(norm.mission, norm.action)
        evidence == permissionLoop(actions, 1, target)
    IN  Verdict(norm.norm_id, agent_id, "fulfilled", evidence,
                IF evidence # <<>> THEN "permission_used" ELSE "permission_not_used",
                None)

check_permission(norm, agent_id, actions) ==
    LET target == Or(norm.action, norm.mission)
        evidence == permissionLoop(actions, 1, target)
        used == evidence # <<>>
    IN  Verdict(norm.norm_id, agent_id, "fulfilled", evidence,
                IF used THEN "permission_used" ELSE "permission_not_used", None)

\* variant: the applicability test comes before the norm lookup
check_compliance_on_applicability_first(index, norm_id, agent_id) ==
    IF ~_is_norm_applicable(norm_id, agent_id)
    THEN Verdict(norm_id, agent_id, "not_applicable", <<>>, "does_not_apply", None)
    ELSE IF ~HasNorm(norm_id)
    THEN Verdict(norm_id, agent_id, "unknown", <<>>, "norm_not_found", None)
    ELSE IF ActionsOf(index, agent_id) = <<>>
    THEN Verdict(norm_id, agent_id, "violated", <<>>, "no_actions", None)
    ELSE LET norm == FindNorm(norm_id)
             actions == ActionsOf(index, agent_id)
         IN  CASE norm.norm_type = "obligation" -> check_obligation(norm, agent_id, actions)
               [] norm.norm_type = "prohibition" -> check_prohibition(norm, agent_id, actions)
               [] norm.norm_type = "permission" -> check_permission(norm, agent_id, actions)
               [] OTHER -> Verdict(norm_id, agent_id, "unknown", <<>>,
                                   "unknown_norm_type", None)

\* check_compliance on a checker whose agent_actions is index
check_compliance_on(index, norm_id, agent_id) ==
    IF ~HasNorm(norm_id)
    THEN Verdict(norm_id, agent_id, "unknown", <<>>, "norm_not_found", None)
    ELSE IF ~_is_norm_applicable(norm_id, agent_id)
    THEN Verdict(norm_id, agent_id, "not_applicable", <<>>, "does_not_apply", None)
    ELSE IF ActionsOf(index, agent_id) = <<>>
    THEN Verdict(norm_id, agent_id, "violated", <<>>, "no_actions", None)
    ELSE LET norm == FindNorm(norm_id)
             actions == ActionsOf(index, agent_id)
         IN  CASE norm.norm_type = "obligation" -> check_obligation(norm, agent_id, actions)
               [] norm.norm_type = "prohibition" -> check_prohibition(norm, agent_id, actions)
               [] norm.norm_type = "permission" -> check_permission(norm, agent_id, actions)
               [] OTHER -> Verdict(norm_id, agent_id, "unknown", <<>>,
                                   "unknown_norm_type", None)

check_compliance(norm_id, agent_id) ==
    check_compliance_on(agent_actions, norm_id, agent_id)

\* check_compliance up to the applicability test: what one evaluation learns
\* from self.norms and self.applicability_matrix
check_compliance_resolve(norm_id, agent_id) ==
    IF ~HasNorm(norm_id)
    THEN [returned |-> TRUE, norm |-> None,
          result |-> Verdict(norm_id, agent_id, "unknown", <<>>, "norm_not_found", None)]
    ELSE IF ~_is_norm_applicable(norm_id, agent_id)
    THEN [returned |-> TRUE, norm |-> None,
          result |-> Verdict(norm_id, agent_id, "not_applicable", <<>>,
                             "does_not_apply", None)]
    ELSE [returned |-> FALSE, norm |-> FindNorm(norm_id), result |-> None]

\* check_compliance from the read of self.agent_actions on, for an evaluation
\* that holds the norm it resolved
check_compliance_evaluate(norm, agent_id, actions) ==
    IF actions = <<>>
    THEN Verdict(norm.norm_id, agent_id, "violated", <<>>, "no_actions", None)
    ELSE CASE norm.norm_type = "obligation" -> check_obligation(norm, agent_id, actions)
           [] norm.norm_type = "prohibition" -> check_prohibition(norm, agent_id, actions)
           [] norm.norm_type = "permission" -> check_permission(norm, agent_id, actions)
           [] OTHER -> Verdict(norm.norm_id, agent_id, "unknown", <<>>,
                               "unknown_norm_type", None)

\* variant: agents in the outer loop, norms in the inner loop
check_all_compliance_agent_major ==
    LET keys == AgentKeys
    IN  [k \in 1..(Len(norms) * Len(keys)) |->
            check_compliance(norms[((k - 1) % Len(norms)) + 1].norm_id,
                             keys[((k - 1) \div Len(norms)) + 1])]

\* variant: only the pairs the norm applies to are emitted
check_all_compliance_applicable_only ==
    LET keys == AgentKeys
        all == [k \in 1..(Len(norms) * Len(keys)) |->
                  check_compliance(norms[((k - 1) \div Len(keys)) + 1].norm_id,
                                   keys[((k - 1) % Len(keys)) + 1])]
    IN  SelectSeq(all, LAMBDA v : v.status # "not_applicable")

\* check_all_compliance: norms in the outer loop, the keys of agent_actions in the inner loop
check_all_compliance ==
    LET keys == AgentKeys
    IN  [k \in 1..(Len(norms) * Len(keys)) |->
            check_compliance(norms[((k - 1) \div Len(keys)) + 1].norm_id,
                             keys[((k - 1) % Len(keys)) + 1])]

-----------------------------------------------------------------------------
(* phase1_parsing/parse_logs.py and schemas.py: the log file becomes ParsedLogs *)

\* a record of the log file; timestamp is None, '' or a string, sequence_number
\* is absent or an integer
RawLog(agent_id, action, timestamp, sequence_number) ==
    [agent_id |-> agent_id, action |-> action, timestamp |-> timestamp,
     sequence_number |-> sequence_number]

\* timestamps are written as one digit: the digit is the instant
DigitValue(c) == CHOOSE n \in 0..9 : <<"0", "1", "2", "3", "4", "5", "6", "7", "8", "9">>[n + 1] = c

\* LogEntry.parse_timestamp: None stays None, a string in a known format
\* becomes a datetime, any other string raises
parse_timestamp(v) ==
    IF v = None THEN [ok |-> TRUE, value |-> NoneNum]
    ELSE IF Len(v) = 1 /\ v[1] \in Digits
         THEN [ok |-> TRUE, value |-> Some(DigitValue(v[1]))]
         ELSE [ok |-> FALSE, value |-> NoneNum]

\* LogParser._detect_temporal_strategy
_detect_temporal_strategy(raw) ==
    IF Len(raw) = 0 THEN "sequence"
    ELSE LET timestamp_count ==
                 Cardinality({i \in DOMAIN raw :
                                 raw[i].timestamp # None /\ raw[i].timestamp # <<>>})
         IN  IF timestamp_count * 10 >= Len(raw) * 8 THEN "timestamp" ELSE "sequence"

\* LogParser._parse_single_log: index is the position in the file, from 0
_parse_single_log(raw_log, index, strategy) ==
    LET ts == parse_timestamp(raw_log.timestamp)
        sequence_number ==
            IF strategy = "sequence" /\ raw_log.sequence_number = NoneNum
            THEN Some(index)
            ELSE raw_log.sequence_number
    IN  [ok |-> ts.ok,
         entry |-> [entry_id |-> index, agent_id |-> raw_log.agent_id,
                    action |-> raw_log.action, timestamp |-> ts.value,
                    sequence_number |-> sequence_number]]

\* the loop of LogParser.parse over raw[i..]: an entry that fails validation is skipped
RECURSIVE parseLoop(_, _, _)
parseLoop(raw, i, strategy) ==
    IF i > Len(raw) THEN <<>>
    ELSE LET r == _parse_single_log(raw[i], i - 1, strategy)
         IN  (IF r.ok THEN <<r.entry>> ELSE <<>>) \o parseLoop(raw, i + 1, strategy)

\* ParsedLogs.model_post_init: TRUE when the constructor does not raise
model_post_init(entries, strategy) ==
    IF strategy = "timestamp"
    THEN \A i \in DOMAIN entries : entries[i].timestamp # NoneNum
    ELSE \A i \in DOMAIN entries : entries[i].sequence_number # NoneNum

\* LogParser.parse
parse_logs(raw) ==
    LET strategy == _detect_temporal_strategy(raw)
        entries == parseLoop(raw, 1, strategy)
    IN  [ok |-> model_post_init(entries, strategy),
         entries |-> entries, temporal_strategy |-> strategy]

-----------------------------------------------------------------------------
(* phase1_parsing/parse_norms.py and parse_norms_xml.py: the norms file      *)
(* becomes ParsedNorms                                                       *)

\* schemas.Norm
Norm(id, type, role, mission, action) ==
    [norm_id |-> id, norm_type |-> type, role |-> role, mission |-> mission,
     action |-> action]

sObligation == <<"o", "b", "l", "i", "g", "a", "t", "i", "o", "n">>

sProhibition == <<"p", "r", "o", "h", "i", "b", "i", "t", "i", "o", "n">>

sPermission == <<"p", "e", "r", "m", "i", "s", "s", "i", "o", "n">>

\* [t.value for t in NormType]
NormTypeValues == {sObligation, sProhibition, sPermission}

\* the NormType a valid value string denotes
NormTypeOf(s) ==
    IF s = sObligation THEN "obligation"
    ELSE IF s = sProhibition THEN "prohibition"
    ELSE "permission"

\* f"norm_{index}"
AutoNormId(index) == <<"norm_0", "norm_1", "norm_2", "norm_3">>[index + 1]

\* a record of the norms file: a dict of the JSON or YAML list, or the
\* attributes of a <norm> element; id is "" when the file gives none
RawNorm(id, type, role, mission, action) ==
    [id |-> id, type |-> type, role |-> role, mission |-> mission, action |-> action]

\* NormParser._parse_single_norm (JSON and YAML); ok is FALSE when it raises
json_parse_single_norm(raw_norm, index) ==
    LET norm_id == IF raw_norm.id = "" THEN AutoNormId(index) ELSE raw_norm.id
        norm_type == IF Truthy(raw_norm.type) THEN lower(raw_norm.type) ELSE raw_norm.type
    IN  IF norm_type \in NormTypeValues
        THEN [ok |-> TRUE,
              norm |-> Norm(norm_id, NormTypeOf(norm_type), raw_norm.role,
                            raw_norm.mission, raw_norm.action)]
        ELSE [ok |-> FALSE, norm |-> None]

\* the loop of NormParser.parse over raw[i..]
RECURSIVE jsonLoop(_, _)
jsonLoop(raw, i) ==
    IF i > Len(raw) THEN <<>>
    ELSE LET r == json_parse_single_norm(raw[i], i - 1)
         IN  (IF r.ok THEN <<r.norm>> ELSE <<>>) \o jsonLoop(raw, i + 1)

\* XMLNormParser._get_attr: the stripped value, None when absent or blank
_get_attr(v) ==
    IF v = None THEN None
    ELSE IF strip(v) = <<>> THEN None ELSE strip(v)

\* XMLNormParser._infer_norm_type_from_element on a <norm> element
_infer_norm_type_from_element(raw_norm) ==
    LET type_attr == _get_attr(raw_norm.type)
    IN  IF Truthy(type_attr) /\ lower(type_attr) \in NormTypeValues
        THEN NormTypeOf(lower(type_attr))
        ELSE "obligation"

\* XMLNormParser._parse_single_norm
xml_parse_single_norm(raw_norm, index) ==
    Norm(IF raw_norm.id = "" THEN AutoNormId(index) ELSE raw_norm.id,
         _infer_norm_type_from_element(raw_norm),
         _get_attr(raw_norm.role), _get_attr(raw_norm.mission),
         _get_attr(raw_norm.action))

\* the loop of XMLNormParser.parse over raw[i..]: an element without
\* (role and mission) or action is skipped
RECURSIVE xmlLoop(_, _)
xmlLoop(raw, i) ==
    IF i > Len(raw) THEN <<>>
    ELSE LET norm == xml_parse_single_norm(raw[i], i - 1)
         IN  (IF (Truthy(norm.role) /\ Truthy(norm.mission)) \/ Truthy(norm.action)
              THEN <<norm>>
              ELSE <<>>) \o xmlLoop(raw, i + 1)

\* parse_norms: the parser is chosen by the suffix of the file
parse_norms(file) ==
    IF file.suffix = ".xml" THEN [ok |-> TRUE, norms |-> xmlLoop(file.records, 1)]
    ELSE IF file.suffix \in {".json", ".yaml", ".yml"}
         THEN [ok |-> TRUE, norms |-> jsonLoop(file.records, 1)]
         ELSE [ok |-> FALSE, norms |-> <<>>]

-----------------------------------------------------------------------------
(* phase3_understanding/system_profiler.py *)

\* variant: only the norms the agent fulfilled are collected
RECURSIVE applicableLoop_fulfilled_only(_, _, _)
applicableLoop_fulfilled_only(results, i, agent_id) ==
    IF i > Len(results) THEN <<>>
    ELSE (IF results[i].agent_id = agent_id /\ results[i].status = "fulfilled"
          THEN <<results[i].norm_id>>
          ELSE <<>>) \o applicableLoop_fulfilled_only(results, i + 1, agent_id)

\* the applicable_norms list build_agent_profiles collects for one agent from
\* results[i..]
RECURSIVE applicableLoop(_, _, _)
applicableLoop(results, i, agent_id) ==
    IF i > Len(results) THEN <<>>
    ELSE (IF results[i].agent_id = agent_id /\ results[i].status # "not_applicable"
          THEN <<results[i].norm_id>>
          ELSE <<>>) \o applicableLoop(results, i + 1, agent_id)

\* SystemProfiler.build_agent_profiles: a dict keyed by agent id
build_agent_profiles ==
    [agent_id \in {log_entries[i].agent_id : i \in DOMAIN log_entries} |->
        LET sequences == {log_entries[i].sequence_number[1] :
                             i \in {j \in DOMAIN log_entries :
                                       /\ log_entries[j].agent_id = agent_id
                                       /\ log_entries[j].sequence_number # NoneNum}}
        IN  [agent_id |-> agent_id,
             applicable_norms |-> applicableLoop(compliance_results, 1, agent_id),
             first_appearance |->
                 IF sequences = {} THEN NoneNum
                 ELSE Some(CHOOSE n \in sequences : \A m \in sequences : n <= m),
             last_appearance |->
                 IF sequences = {} THEN NoneNum
                 ELSE Some(CHOOSE n \in sequences : \A m \in sequences : n >= m)]]

\* the sort key of build_execution_timeline
TimelineKey(e) ==
    IF temporal_strategy = "sequence" THEN e.sequence_number[1] ELSE e.timestamp[1]

\* sorted(): e goes after every element whose key is not greater (stable)
RECURSIVE insertSorted(_, _)
insertSorted(q, e) ==
    IF q = <<>> THEN <<e>>
    ELSE IF TimelineKey(q[Len(q)]) <= TimelineKey(e) THEN Append(q, e)
         ELSE Append(insertSorted(SubSeq(q, 1, Len(q) - 1), e), q[Len(q)])

RECURSIVE sortedLoop(_, _, _)
sortedLoop(es, i, acc) ==
    IF i > Len(es) THEN acc ELSE sortedLoop(es, i + 1, insertSorted(acc, es[i]))

\* entry.get('sequence_number') or entry.get('timestamp')
temporal_marker(e) ==
    IF e.sequence_number # NoneNum /\ e.sequence_number[1] # 0
    THEN e.sequence_number
    ELSE e.timestamp

\* SystemProfiler.build_execution_timeline
build_execution_timeline ==
    LET sorted_entries == sortedLoop(log_entries, 1, <<>>)
    IN  [k \in DOMAIN sorted_entries |->
            [entry_id |-> sorted_entries[k].entry_id,
             agent_id |-> sorted_entries[k].agent_id,
             action |-> sorted_entries[k].action,
             temporal_marker |-> temporal_marker(sorted_entries[k])]]

\* SystemProfiler.build_profile
build_profile ==
    [built |-> TRUE,
     agents |-> build_agent_profiles,
     temporal_strategy |-> temporal_strategy,
     execution_timeline |-> build_execution_timeline]

-----------------------------------------------------------------------------
(* Inputs: the canonical records the ingestion stage can hand to the engine *)

sAssembler == <<"a", "s", "s", "e", "m", "b", "l", "e", "r">>

sSupplier == <<"s", "u", "p", "p", "l", "i", "e", "r">>

sSupplierCap == <<"S", "u", "p", "p", "l", "i", "e", "r">>

sAssembler1 == <<"a", "s", "s", "e", "m", "b", "l", "e", "r", "_", "1">>

sCustomer1 == <<"c", "u", "s", "t", "o", "m", "e", "r", "_", "1">>

sAssembleSkateboardM ==
    <<"a", "s", "s", "e", "m", "b", "l", "e", "_", "s", "k", "a", "t", "e", "b", "o", "a", "r", "d">>

sAssembleSkateboard ==
    <<"a", "s", "s", "e", "m", "b", "l", "e", " ", "s", "k", "a", "t", "e", "b", "o", "a", "r", "d">>

sOverstock == <<"o", "v", "e", "r", "s", "t", "o", "c", "k">>

sOverstockWarehouse ==
    <<"o", "v", "e", "r", "s", "t", "o", "c", "k", " ", "w", "a", "r", "e", "h", "o", "u", "s", "e">>

sOverstockSkateboard ==
    <<"o", "v", "e", "r", "s", "t", "o", "c", "k", " ", "s", "k", "a", "t", "e", "b", "o", "a", "r", "d">>

sSell == <<"s", "e", "l", "l">>

sLeadAssembler ==
    <<"l", "e", "a", "d", " ", "a", "s", "s", "e", "m", "b", "l", "e", "r">>

sAssembler1Cap == <<"A", "s", "s", "e", "m", "b", "l", "e", "r", "_", "1">>

\* the norms of the full run: roles that match agents exactly, by containment,
\* not at all, and norms with an absent or an empty role
NormPool ==
    { Norm("n1", "obligation", sAssembler, sAssembleSkateboardM, None),
      Norm("n2", "prohibition", sSupplier, None, sOverstock),
      Norm("n3", "permission", None, None, sSell),
      Norm("n4", "obligation", <<>>, sAssembleSkateboardM, sOverstock),
      Norm("n5", "permission", sSupplierCap, sAssembleSkateboardM, None) }

\* the norms handed to a ComplianceChecker: every norm type with every
\* combination of mission and action present or absent
CheckerNormPool ==
    { Norm("n1", t, sSupplier, m, a) :
        t \in {"obligation", "prohibition", "permission"},
        m \in {None, sAssembleSkateboardM},
        a \in {None, sOverstock} }

NormIds == {"n0", "n1", "n2", "n3", "n4", "n5", "n6", "n7"}

AgentIds == {sAssembler1, sSupplier, sCustomer1}

Raw(agent_id, action) == [agent_id |-> agent_id, action |-> action]

RawPool ==
    { Raw(sAssembler1, sAssembleSkateboard),
      Raw(sSupplier, sOverstockWarehouse),
      Raw(sSupplier, sSell),
      Raw(sCustomer1, sAssembleSkateboard) }

\* actions that match the mission only, the mission (by keyword overlap) and
\* the action, and neither; and an entry of another agent
CheckerRawPool ==
    { Raw(sSupplier, sAssembleSkateboard),
      Raw(sSupplier, sOverstockSkateboard),
      Raw(sSupplier, sSell),
      Raw(sCustomer1, sOverstockSkateboard) }

SeqsUpTo(S, n) == UNION {[1..k -> S] : k \in 0..n}

\* LogParser._parse_single_log under the SEQUENCE strategy: entry_<index> and
\* sequence_number = index, by position in the file
MkLog(raw) ==
    [i \in 1..Len(raw) |->
        [entry_id |-> i - 1, agent_id |-> raw[i].agent_id, action |-> raw[i].action,
         timestamp |-> NoneNum, sequence_number |-> Some(i - 1)]]

\* list(set(entry['agent_id'] for entry in es)): the distinct agents, in any order
AgentOrders(es) ==
    LET ids == {es[i].agent_id : i \in DOMAIN es}
    IN  {q \in [1..Cardinality(ids) -> ids] : Range(q) = ids}

Call(op, norm_id, agent_id, added) ==
    [op |-> op, norm_id |-> norm_id, agent_id |-> agent_id, added |-> added]

NoCall == Call("none", "-", None, None)

NoRet == [status |-> "none"]

NoPrev == [set |-> FALSE, val |-> NoRet]

NoFile == [suffix |-> "none", records |-> <<>>]

NoProfile == [built |-> FALSE]

-----------------------------------------------------------------------------
(* The full run: main.run_full_pipeline, phases 2 and 3 *)

Init ==
    /\ norms \in SeqsUpTo(NormPool, MaxNorms)
    /\ log_entries \in {MkLog(raw) : raw \in SeqsUpTo(RawPool, MaxLog)}
    /\ agents = <<>>
    /\ role_mapping = <<>>
    /\ applicability_matrix = <<>>
    /\ agent_actions = <<>>
    /\ compliance_results = <<>>
    /\ pc = "parsed"
    /\ call = NoCall
    /\ ret = NoRet
    /\ prev = NoPrev
    /\ tasks = <<>>
    /\ raw_norms = NoFile
    /\ raw_logs = <<>>
    /\ temporal_strategy = "sequence"
    /\ profile = NoProfile

\* matcher = NormMatcher(parsed_norms.json, parsed_logs.json)
MatcherInit ==
    /\ pc = "parsed"
    /\ agents' \in AgentOrders(log_entries)
    /\ pc' = "matcher"
    /\ UNCHANGED <<raw_norms, raw_logs, temporal_strategy, profile,
                   norms, log_entries, role_mapping, applicability_matrix,
                   agent_actions, compliance_results, call, ret, prev, tasks>>

\* role_mapping = matcher.build_role_mapping()
BuildRoleMapping ==
    /\ pc = "matcher"
    /\ role_mapping' = build_role_mapping
    /\ pc' = "mapped"
    /\ UNCHANGED <<raw_norms, raw_logs, temporal_strategy, profile,
                   norms, log_entries, agents, applicability_matrix,
                   agent_actions, compliance_results, call, ret, prev, tasks>>

\* applicability_matrix = matcher.build_applicability_matrix()
BuildApplicabilityMatrix ==
    /\ pc = "mapped"
    /\ applicability_matrix' = build_applicability_matrix
    /\ pc' = "matrix"
    /\ UNCHANGED <<raw_norms, raw_logs, temporal_strategy, profile,
                   norms, log_entries, agents, role_mapping,
                   agent_actions, compliance_results, call, ret, prev, tasks>>

\* checker = ComplianceChecker(parsed_norms.json, parsed_logs.json, role_mapping, matrix)
CheckerInit ==
    /\ pc = "matrix"
    /\ agent_actions' = _build_agent_action_index(log_entries)
    /\ pc' = "checker"
    /\ UNCHANGED <<raw_norms, raw_logs, temporal_strategy, profile,
                   norms, log_entries, agents, role_mapping, applicability_matrix,
                   compliance_results, call, ret, prev, tasks>>

\* compliance_results = checker.check_all_compliance()
CheckAllCompliance ==
    /\ pc = "checker"
    /\ compliance_results' = check_all_compliance
    /\ pc' = "done"
    /\ UNCHANGED <<raw_norms, raw_logs, temporal_strategy, profile,
                   norms, log_entries, agents, role_mapping, applicability_matrix,
                   agent_actions, call, ret, prev, tasks>>

\* profile = build_system_profile(parsed_norms.json, parsed_logs.json, compliance_results.json)
BuildProfile ==
    /\ pc = "done"
    /\ profile' = build_profile
    /\ pc' = "profiled"
    /\ UNCHANGED <<raw_norms, raw_logs, temporal_strategy,
                   norms, log_entries, agents, role_mapping, applicability_matrix,
                   agent_actions, compliance_results, call, ret, prev, tasks>>

Next ==
    \/ MatcherInit
    \/ BuildRoleMapping
    \/ BuildApplicabilityMatrix
    \/ CheckerInit
    \/ CheckAllCompliance
    \/ BuildProfile

Spec == Init /\ [][Next]_vars

-----------------------------------------------------------------------------
(* A NormMatcher in use: its methods called with any arguments, any number of times *)

\* The matcher reads the log only for its agent ids: one entry per agent is
\* enough to give it every agent list over these agents.
MatcherRawPool ==
    { Raw(sAssembler1, sAssembleSkateboard),
      Raw(sSupplier, sOverstockWarehouse) }

\* the norms of a matcher: those of the full run, and two more roles that match
\* assembler_1 by one token only and exactly
MatcherNormPool ==
    NormPool \cup
    { Norm("n6", "obligation", sLeadAssembler, None, sSell),
      Norm("n7", "prohibition", sAssembler1Cap, None, sSell) }

MatcherLogs ==
    {MkLog(raw) : raw \in {q \in SeqsUpTo(MatcherRawPool, MaxLog) :
                              \A i, j \in DOMAIN q : q[i] = q[j] => i = j}}

InitMatcher ==
    /\ norms \in SeqsUpTo(MatcherNormPool, MaxNorms)
    /\ log_entries \in MatcherLogs
    /\ agents \in AgentOrders(log_entries)
    /\ role_mapping = <<>>
    /\ applicability_matrix = <<>>
    /\ agent_actions = <<>>
    /\ compliance_results = <<>>
    /\ pc = "matcher"
    /\ call = NoCall
    /\ ret = NoRet
    /\ prev = NoPrev
    /\ tasks = <<>>
    /\ raw_norms = NoFile
    /\ raw_logs = <<>>
    /\ temporal_strategy = "sequence"
    /\ profile = NoProfile

Reverse(q) == [i \in 1..Len(q) |-> q[Len(q) + 1 - i]]

\* variant: the invocation leaves self.norms in reversed order
InferAgentRole_reordering(agent_id) ==
    /\ call' = Call("infer_agent_role", "-", agent_id, None)
    /\ ret' = infer_agent_role(agent_id)
    /\ prev' = IF call = Call("infer_agent_role", "-", agent_id, None)
               THEN [set |-> TRUE, val |-> ret]
               ELSE NoPrev
    /\ norms' = Reverse(norms)
    /\ UNCHANGED <<raw_norms, raw_logs, temporal_strategy, profile,
                   log_entries, agents, role_mapping, applicability_matrix,
                   agent_actions, compliance_results, pc, tasks>>

\* matcher.infer_agent_role(agent_id); prev keeps what the previous invocation
\* returned when it had the same argument
InferAgentRole(agent_id) ==
    /\ call' = Call("infer_agent_role", "-", agent_id, None)
    /\ ret' = infer_agent_role(agent_id)
    /\ prev' = IF call = Call("infer_agent_role", "-", agent_id, None)
               THEN [set |-> TRUE, val |-> ret]
               ELSE NoPrev
    /\ UNCHANGED <<raw_norms, raw_logs, temporal_strategy, profile,
                   norms, log_entries, agents, role_mapping, applicability_matrix,
                   agent_actions, compliance_results, pc, tasks>>

\* matcher.check_norm_applicability(norm_id, agent_id)
CheckNormApplicability(norm_id, agent_id) ==
    /\ call' = Call("check_norm_applicability", norm_id, agent_id, None)
    /\ ret' = check_norm_applicability(norm_id, agent_id)
    /\ prev' = NoPrev
    /\ UNCHANGED <<raw_norms, raw_logs, temporal_strategy, profile,
                   norms, log_entries, agents, role_mapping, applicability_matrix,
                   agent_actions, compliance_results, pc, tasks>>

NextMatcher ==
    \/ \E a \in AgentIds : InferAgentRole(a)
    \/ \E n \in NormIds, a \in AgentIds :
          (n = "n0" \/ HasNorm(n)) /\ CheckNormApplicability(n, a)

SpecMatcher == InitMatcher /\ [][NextMatcher]_vars

-----------------------------------------------------------------------------
(* Runs of the matcher over the same two files: the matrix is built, the    *)
(* matcher is constructed again, and the matrix is built again.             *)

InitRuns ==
    /\ norms \in SeqsUpTo(NormPool, MaxNorms)
    /\ log_entries \in MatcherLogs
    /\ agents \in AgentOrders(log_entries)
    /\ role_mapping = <<>>
    /\ applicability_matrix = <<>>
    /\ agent_actions = <<>>
    /\ compliance_results = <<>>
    /\ pc = "matcher"
    /\ call = NoCall
    /\ ret = NoRet
    /\ prev = NoPrev
    /\ tasks = <<>>
    /\ raw_norms = NoFile
    /\ raw_logs = <<>>
    /\ temporal_strategy = "sequence"
    /\ profile = NoProfile

\* matcher.build_applicability_matrix(); prev keeps the matrix the previous
\* invocation returned
BuildMatrixAgain ==
    /\ call' = Call("build_applicability_matrix", "-", None, None)
    /\ ret' = build_applicability_matrix
    /\ prev' = IF call.op = "build_applicability_matrix"
               THEN [set |-> TRUE, val |-> ret]
               ELSE NoPrev
    /\ UNCHANGED <<raw_norms, raw_logs, temporal_strategy, profile,
                   norms, log_entries, agents, role_mapping, applicability_matrix,
                   agent_actions, compliance_results, pc, tasks>>

\* another run: NormMatcher(parsed_norms_path, parsed_logs_path) constructed
\* again over the same two files
ConstructAgain ==
    /\ agents' \in AgentOrders(log_entries)
    /\ UNCHANGED <<raw_norms, raw_logs, temporal_strategy, profile,
                   norms, log_entries, role_mapping, applicability_matrix,
                   agent_actions, compliance_results, pc, call, ret, prev, tasks>>

NextRuns ==
    \/ BuildMatrixAgain
    \/ ConstructAgain

SpecRuns == InitRuns /\ [][NextRuns]_vars

-----------------------------------------------------------------------------
(* A ComplianceChecker in use: built from one norm, a log and any applicability *)
(* matrix a caller may hand it, then asked about any (norm_id, agent_id).       *)

MatrixPairs == <<sSupplier, sCustomer1>>

\* a matrix with at most one record for each pair (n1, agent): absent, applies or not
RECURSIVE mkMatrix(_, _)
mkMatrix(f, i) ==
    IF i > Len(MatrixPairs) THEN <<>>
    ELSE (IF f[i] = "absent" THEN <<>>
          ELSE <<[norm_id |-> "n1", agent_id |-> MatrixPairs[i],
                  applies |-> (f[i] = "applies"),
                  reason |-> [kind |-> "given", role |-> None, required |-> None,
                              confidence |-> "none"]]>>)
         \o mkMatrix(f, i + 1)

MatrixPool ==
    {mkMatrix(f, 1) : f \in [DOMAIN MatrixPairs -> {"absent", "applies", "not"}]}

InitChecker ==
    /\ norms \in {<<n>> : n \in CheckerNormPool}
    /\ log_entries \in {MkLog(raw) : raw \in SeqsUpTo(CheckerRawPool, MaxLog)}
    /\ agents = <<>>
    /\ role_mapping = <<>>
    /\ applicability_matrix \in MatrixPool
    /\ agent_actions = _build_agent_action_index(log_entries)
    /\ compliance_results = <<>>
    /\ pc = "checker"
    /\ call = NoCall
    /\ ret = NoRet
    /\ prev = NoPrev
    /\ tasks = <<>>
    /\ raw_norms = NoFile
    /\ raw_logs = <<>>
    /\ temporal_strategy = "sequence"
    /\ profile = NoProfile

\* checker.check_compliance(norm_id, agent_id)
CheckCompliance(norm_id, agent_id) ==
    /\ call' = Call("check_compliance", norm_id, agent_id, None)
    /\ ret' = check_compliance(norm_id, agent_id)
    /\ prev' = NoPrev
    /\ UNCHANGED <<raw_norms, raw_logs, temporal_strategy, profile,
                   norms, log_entries, agents, role_mapping, applicability_matrix,
                   agent_actions, compliance_results, pc, tasks>>

RawOf(es) == [i \in DOMAIN es |-> Raw(es[i].agent_id, es[i].action)]

InsertAt(q, pos, e) == SubSeq(q, 1, pos - 1) \o <<e>> \o SubSeq(q, pos, Len(q))

\* The same question asked of two checkers: one built on the log as it is, and
\* one built on the log with the entry e added at position pos (same norms,
\* same matrix).  prev holds the first answer and ret the second.
Recheck(norm_id, e, pos) ==
    /\ Len(log_entries) < MaxLog
    /\ prev' = [set |-> TRUE, val |-> check_compliance(norm_id, e.agent_id)]
    /\ LET extended == MkLog(InsertAt(RawOf(log_entries), pos, e))
           index == _build_agent_action_index(extended)
       IN  /\ log_entries' = extended
           /\ agent_actions' = index
           /\ ret' = check_compliance_on(index, norm_id, e.agent_id)
    /\ call' = Call("recheck", norm_id, e.agent_id, e.action)
    /\ UNCHANGED <<raw_norms, raw_logs, temporal_strategy, profile,
                   norms, agents, role_mapping, applicability_matrix,
                   compliance_results, pc, tasks>>

NextChecker ==
    \/ \E n \in {"n0", "n1"}, a \in AgentIds : CheckCompliance(n, a)
    \/ \E n \in {"n0", "n1"}, e \in CheckerRawPool, pos \in 1..MaxLog :
          pos <= Len(log_entries) + 1 /\ Recheck(n, e, pos)

SpecChecker == InitChecker /\ [][NextChecker]_vars

-----------------------------------------------------------------------------
(* The (norm, agent) evaluations of one checker run by concurrent workers: the *)
(* pairs are submitted in the order of check_all_compliance, every submitted   *)
(* evaluation may begin and end at any time, and the results are merged in     *)
(* submission order.                                                           *)

ParallelNormPool ==
    { Norm("n1", "obligation", sAssembler, sAssembleSkateboardM, None),
      Norm("n2", "prohibition", sSupplier, None, sOverstock),
      Norm("n3", "permission", None, None, sSell) }

ParallelRawPool ==
    { Raw(sAssembler1, sAssembleSkateboard),
      Raw(sSupplier, sOverstockWarehouse) }

\* the sequences over S of length at most n without repetition
InjectiveSeqsUpTo(S, n) ==
    {q \in SeqsUpTo(S, n) : \A i, j \in DOMAIN q : q[i] = q[j] => i = j}

Task(norm_id, agent_id) ==
    [norm_id |-> norm_id, agent_id |-> agent_id, state |-> "submitted",
     norm |-> None, result |-> None]

InitParallel ==
    /\ norms \in InjectiveSeqsUpTo(ParallelNormPool, MaxNorms)
    /\ log_entries \in {MkLog(raw) : raw \in SeqsUpTo(ParallelRawPool, MaxLog)}
    /\ agents \in AgentOrders(log_entries)
    /\ role_mapping = build_role_mapping
    /\ applicability_matrix = build_applicability_matrix
    /\ agent_actions = _build_agent_action_index(log_entries)
    /\ compliance_results = <<>>
    /\ pc = "checker"
    /\ call = NoCall
    /\ ret = NoRet
    /\ prev = NoPrev
    /\ tasks = <<>>
    /\ raw_norms = NoFile
    /\ raw_logs = <<>>
    /\ temporal_strategy = "sequence"
    /\ profile = NoProfile

\* one task per iteration of the two loops of check_all_compliance
SubmitTasks ==
    /\ pc = "checker"
    /\ tasks' = LET keys == AgentKeys
                IN  [k \in 1..(Len(norms) * Len(keys)) |->
                        Task(norms[((k - 1) \div Len(keys)) + 1].norm_id,
                             keys[((k - 1) % Len(keys)) + 1])]
    /\ pc' = "parallel"
    /\ UNCHANGED <<raw_norms, raw_logs, temporal_strategy, profile,
                   norms, log_entries, agents, role_mapping, applicability_matrix,
                   agent_actions, compliance_results, call, ret, prev>>

\* a worker begins check_compliance for task k: the norm lookup and the
\* applicability test, which return at once when they settle the verdict
StartTask(k) ==
    /\ pc = "parallel"
    /\ tasks[k].state = "submitted"
    /\ LET r == check_compliance_resolve(tasks[k].norm_id, tasks[k].agent_id)
       IN  tasks' = [tasks EXCEPT ![k] =
                        [@ EXCEPT !.state = IF r.returned THEN "done" ELSE "running",
                                  !.norm = r.norm,
                                  !.result = r.result]]
    /\ UNCHANGED <<raw_norms, raw_logs, temporal_strategy, profile,
                   norms, log_entries, agents, role_mapping, applicability_matrix,
                   agent_actions, compliance_results, pc, call, ret, prev>>

\* variant: the evaluation takes the agent's actions out of the index
FinishTask_pop(k) ==
    /\ pc = "parallel"
    /\ tasks[k].state = "running"
    /\ tasks' = [tasks EXCEPT ![k] =
                    [@ EXCEPT !.state = "done",
                              !.result = check_compliance_evaluate(
                                             tasks[k].norm, tasks[k].agent_id,
                                             ActionsOf(agent_actions, tasks[k].agent_id))]]
    /\ agent_actions' = SelectSeq(agent_actions,
                                  LAMBDA item : item.agent_id # tasks[k].agent_id)
    /\ UNCHANGED <<raw_norms, raw_logs, temporal_strategy, profile,
                   norms, log_entries, agents, role_mapping, applicability_matrix,
                   compliance_results, pc, call, ret, prev>>

\* the worker goes on with task k: it reads the agent's actions and evaluates
\* the norm it holds
FinishTask(k) ==
    /\ pc = "parallel"
    /\ tasks[k].state = "running"
    /\ tasks' = [tasks EXCEPT ![k] =
                    [@ EXCEPT !.state = "done",
                              !.result = check_compliance_evaluate(
                                             tasks[k].norm, tasks[k].agent_id,
                                             ActionsOf(agent_actions, tasks[k].agent_id))]]
    /\ UNCHANGED <<raw_norms, raw_logs, temporal_strategy, profile,
                   norms, log_entries, agents, role_mapping, applicability_matrix,
                   agent_actions, compliance_results, pc, call, ret, prev>>

\* the final ordered merge: the results concatenated in submission order
MergeResults ==
    /\ pc = "parallel"
    /\ \A k \in DOMAIN tasks : tasks[k].state = "done"
    /\ compliance_results' = [k \in DOMAIN tasks |-> tasks[k].result]
    /\ pc' = "merged"
    /\ UNCHANGED <<raw_norms, raw_logs, temporal_strategy, profile,
                   norms, log_entries, agents, role_mapping, applicability_matrix,
                   agent_actions, call, ret, prev, tasks>>

NextParallel ==
    \/ SubmitTasks
    \/ \E k \in DOMAIN tasks : StartTask(k)
    \/ \E k \in DOMAIN tasks : FinishTask(k)
    \/ MergeResults

SpecParallel == InitParallel /\ [][NextParallel]_vars

-----------------------------------------------------------------------------
(* The action-target similarity test applied to one (action, target) pair *)

\* characters an action description is made of: letters in both cases, the
\* separators the normalization rewrites, and a punctuation character
ActionAlphabet == {"a", "b", "A", " ", "_", "-", "."}

\* characters a mission or action name of a norm is made of
TargetAlphabet == {"a", "b", "_"}

ActionStrings == SeqsUpTo(ActionAlphabet, MaxLen)

\* norm.get('mission') / norm.get('action'): a name, the empty string or None
TargetStrings == SeqsUpTo(TargetAlphabet, MaxLen) \cup {None}

CallMatch(op, action, mission) == [op |-> op, action |-> action, mission |-> mission]

InitMatch ==
    /\ norms = <<>>
    /\ log_entries = <<>>
    /\ agents = <<>>
    /\ role_mapping = <<>>
    /\ applicability_matrix = <<>>
    /\ agent_actions = <<>>
    /\ compliance_results = <<>>
    /\ pc = "args"
    /\ call \in {CallMatch("none", a, m) : a \in ActionStrings, m \in TargetStrings}
    /\ ret = NoRet
    /\ prev = NoPrev
    /\ tasks = <<>>
    /\ raw_norms = NoFile
    /\ raw_logs = <<>>
    /\ temporal_strategy = "sequence"
    /\ profile = NoProfile

\* matches, match_type = self._mission_action_match(action, target)
MissionActionMatch ==
    /\ pc = "args"
    /\ call' = CallMatch("_mission_action_match", call.action, call.mission)
    /\ ret' = _mission_action_match(call.action, call.mission)
    /\ pc' = "returned"
    /\ UNCHANGED <<raw_norms, raw_logs, temporal_strategy, profile,
                   norms, log_entries, agents, role_mapping, applicability_matrix,
                   agent_actions, compliance_results, prev, tasks>>

NextMatch == MissionActionMatch

SpecMatch == InitMatch /\ [][NextMatch]_vars

-----------------------------------------------------------------------------
(* The full run from the log file: the records of the file may carry their   *)
(* own timestamps and sequence numbers, in any order.                        *)

IngestNormPool ==
    { Norm("n1", "obligation", sSupplier, None, sOverstock),
      Norm("n2", "prohibition", sSupplier, None, sOverstock) }

IngestRawPool ==
    { RawLog(sSupplier, a, t, n) :
        a \in {sOverstockSkateboard, sSell},
        t \in {None, <<"1">>, <<"2">>},
        n \in {NoneNum, Some(0), Some(1)} }

InitIngest ==
    /\ norms \in {<<n>> : n \in IngestNormPool}
    /\ raw_logs \in SeqsUpTo(IngestRawPool, MaxLog)
    /\ log_entries = <<>>
    /\ temporal_strategy = "sequence"
    /\ agents = <<>>
    /\ role_mapping = <<>>
    /\ applicability_matrix = <<>>
    /\ agent_actions = <<>>
    /\ compliance_results = <<>>
    /\ pc = "files"
    /\ call = NoCall
    /\ ret = NoRet
    /\ prev = NoPrev
    /\ tasks = <<>>
    /\ raw_norms = NoFile
    /\ profile = NoProfile

\* parsed_logs = parse_logs(logs_file), saved as parsed_logs.json
ParseLogs ==
    /\ pc = "files"
    /\ LET parsed == parse_logs(raw_logs)
       IN  IF parsed.ok
           THEN /\ log_entries' = parsed.entries
                /\ temporal_strategy' = parsed.temporal_strategy
                /\ pc' = "parsed"
           ELSE /\ pc' = "failed"
                /\ UNCHANGED <<log_entries, temporal_strategy>>
    /\ UNCHANGED <<raw_norms, raw_logs, profile,
                   norms, agents, role_mapping, applicability_matrix,
                   agent_actions, compliance_results, call, ret, prev, tasks>>

NextIngest ==
    \/ ParseLogs
    \/ Next

SpecIngest == InitIngest /\ [][NextIngest]_vars

-----------------------------------------------------------------------------
(* The norms file read by parse_norms, in each supported format *)

sPermissionCap == <<"P", "e", "r", "m", "i", "s", "s", "i", "o", "n">>

sDuty == <<"d", "u", "t", "y">>

\* records with a valid, an invalid and no type, and with every combination
\* of role, mission and action present, blank or absent
RawNormPool ==
    { RawNorm("", t, r, m, a) :
        t \in {None, sPermissionCap, sDuty},
        r \in {None, sSupplier},
        m \in {None, sAssembleSkateboardM},
        a \in {None, <<" ">>, sOverstock} }

InitNorms ==
    /\ raw_norms \in {[suffix |-> s, records |-> q] :
                         s \in {".xml", ".json", ".yaml"},
                         q \in SeqsUpTo(RawNormPool, MaxNorms)}
    /\ norms = <<>>
    /\ raw_logs = <<>>
    /\ log_entries = <<>>
    /\ temporal_strategy = "sequence"
    /\ agents = <<>>
    /\ role_mapping = <<>>
    /\ applicability_matrix = <<>>
    /\ agent_actions = <<>>
    /\ compliance_results = <<>>
    /\ pc = "files"
    /\ call = NoCall
    /\ ret = NoRet
    /\ prev = NoPrev
    /\ tasks = <<>>
    /\ profile = NoProfile

\* parsed_norms = parse_norms(norms_file), saved as parsed_norms.json
ParseNorms ==
    /\ pc = "files"
    /\ LET parsed == parse_norms(raw_norms)
       IN  IF parsed.ok
           THEN norms' = parsed.norms /\ pc' = "parsed"
           ELSE norms' = norms /\ pc' = "failed"
    /\ UNCHANGED <<raw_norms, raw_logs, temporal_strategy, profile,
                   log_entries, agents, role_mapping, applicability_matrix,
                   agent_actions, compliance_results, call, ret, prev, tasks>>

NextNorms == ParseNorms

SpecNorms == InitNorms /\ [][NextNorms]_vars

-----------------------------------------------------------------------------
(* A NormMatcher over role names made of several parts *)

sWsTrunks == <<"w", "s", "_", "t", "r", "u", "n", "k", "s">>

sWsTrunksSpaced == <<"w", "s", " ", "t", "r", "u", "n", "k", "s">>

sWsTrunksDashed == <<"w", "s", "-", "t", "r", "u", "n", "k", "s">>

sTrunks == <<"t", "r", "u", "n", "k", "s">>

sWaTrunks1 == <<"w", "a", "_", "t", "r", "u", "n", "k", "s", "1">>

sWsTrunks1 == <<"w", "s", "_", "t", "r", "u", "n", "k", "s", "1">>

\* the role written with an underscore, a space and a hyphen, and one of its parts
PartsNormPool ==
    { Norm("n1", "obligation", sWsTrunks, sAssembleSkateboardM, None),
      Norm("n2", "obligation", sWsTrunksSpaced, sAssembleSkateboardM, None),
      Norm("n3", "obligation", sWsTrunksDashed, sAssembleSkateboardM, None),
      Norm("n4", "obligation", sTrunks, sAssembleSkateboardM, None) }

PartsAgentIds == {sWaTrunks1, sWsTrunks1}

PartsRawPool == {Raw(a, sAssembleSkateboard) : a \in PartsAgentIds}

InitParts ==
    /\ norms \in SeqsUpTo(PartsNormPool, MaxNorms)
    /\ log_entries \in {MkLog(raw) : raw \in SeqsUpTo(PartsRawPool, MaxLog)}
    /\ agents \in AgentOrders(log_entries)
    /\ role_mapping = <<>>
    /\ applicability_matrix = <<>>
    /\ agent_actions = <<>>
    /\ compliance_results = <<>>
    /\ pc = "matcher"
    /\ call = NoCall
    /\ ret = NoRet
    /\ prev = NoPrev
    /\ tasks = <<>>
    /\ raw_norms = NoFile
    /\ raw_logs = <<>>
    /\ temporal_strategy = "sequence"
    /\ profile = NoProfile

NextParts == \E a \in PartsAgentIds : InferAgentRole(a)

SpecParts == InitParts /\ [][NextParts]_vars

-----------------------------------------------------------------------------
(* The temporal strategy detected for a log file *)

\* records with no timestamp, an empty timestamp and a timestamp
DetectRawPool == {RawLog(sSupplier, sSell, t, NoneNum) : t \in {None, <<>>, <<"1">>}}

InitDetect ==
    /\ raw_logs \in SeqsUpTo(DetectRawPool, MaxRaw)
    /\ norms = <<>>
    /\ log_entries = <<>>
    /\ temporal_strategy = "sequence"
    /\ agents = <<>>
    /\ role_mapping = <<>>
    /\ applicability_matrix = <<>>
    /\ agent_actions = <<>>
    /\ compliance_results = <<>>
    /\ pc = "files"
    /\ call = NoCall
    /\ ret = NoRet
    /\ prev = NoPrev
    /\ tasks = <<>>
    /\ raw_norms = NoFile
    /\ profile = NoProfile

\* parser._detect_temporal_strategy(raw_logs)
DetectTemporalStrategy ==
    /\ call = NoCall
    /\ call' = Call("_detect_temporal_strategy", "-", None, None)
    /\ ret' = [status |-> "returned",
               temporal_strategy |-> _detect_temporal_strategy(raw_logs)]
    /\ UNCHANGED <<raw_norms, raw_logs, temporal_strategy, profile,
                   norms, log_entries, agents, role_mapping, applicability_matrix,
                   agent_actions, compliance_results, pc, prev, tasks>>

NextDetect == DetectTemporalStrategy

SpecDetect == InitDetect /\ [][NextDetect]_vars

-----------------------------------------------------------------------------
(* Properties *)

LogAgents == {log_entries[i].agent_id : i \in DOMAIN log_entries}

UniqueNormIds ==
    \A i, j \in DOMAIN norms : norms[i].norm_id = norms[j].norm_id => i = j

\* the log entries of one agent, read from the log itself
EntriesOf(agent_id) == {i \in DOMAIN log_entries : log_entries[i].agent_id = agent_id}

Matches(action, target) == _mission_action_match(action, target).matches

\* the first matrix record of the pair exists and says `applies`
RecordSays(norm_id, agent_id, applies) ==
    \E k \in DOMAIN applicability_matrix :
        /\ applicability_matrix[k].norm_id = norm_id
        /\ applicability_matrix[k].agent_id = agent_id
        /\ applicability_matrix[k].applies = applies
        /\ \A j \in 1..(k - 1) :
              ~(/\ applicability_matrix[j].norm_id = norm_id
                /\ applicability_matrix[j].agent_id = agent_id)

\* check_compliance was called on an existing norm of the given type that the
\* matrix says applies to the agent
Evaluated(type) ==
    /\ call.op = "check_compliance"
    /\ HasNorm(call.norm_id)
    /\ FindNorm(call.norm_id).norm_type = type
    /\ RecordSays(call.norm_id, call.agent_id, TRUE)

\* some evidence item of the returned verdict cites log entry i for the target
Cited(i, target) ==
    \E k \in DOMAIN ret.evidence :
        /\ ret.evidence[k].entry_id = log_entries[i].entry_id
        /\ ret.evidence[k].action = log_entries[i].action
        /\ ret.evidence[k].target = target

\* C1 (totality): after check_all_compliance on norms with unique ids, every
\* (norm, agent of the log) pair has exactly one verdict and no other pair has one.
C1_Totality ==
    (pc = "done" /\ UniqueNormIds) =>
        /\ \A i \in DOMAIN norms, a \in LogAgents :
              Cardinality({k \in DOMAIN compliance_results :
                              /\ compliance_results[k].norm_id = norms[i].norm_id
                              /\ compliance_results[k].agent_id = a}) = 1
        /\ \A k \in DOMAIN compliance_results :
              /\ \E i \in DOMAIN norms :
                    norms[i].norm_id = compliance_results[k].norm_id
              /\ compliance_results[k].agent_id \in LogAgents

C1_Witness ==
    /\ pc = "done"
    /\ UniqueNormIds
    /\ Len(norms) = MaxNorms
    /\ Cardinality(LogAgents) > 1
    /\ \E k \in DOMAIN compliance_results :
          compliance_results[k].status = "not_applicable"
    /\ \E k \in DOMAIN compliance_results :
          compliance_results[k].status = "fulfilled"

\* C2 (applicability gating): when the matrix record of the pair says
\* applies = false, check_compliance returns not_applicable with no evidence,
\* for every norm type and every action history.
C2_Gating ==
    (/\ call.op = "check_compliance"
     /\ HasNorm(call.norm_id)
     /\ RecordSays(call.norm_id, call.agent_id, FALSE)) =>
        /\ ret.status = "not_applicable"
        /\ ret.evidence = <<>>

C2_Witness ==
    /\ call.op = "check_compliance"
    /\ HasNorm(call.norm_id)
    /\ RecordSays(call.norm_id, call.agent_id, FALSE)
    /\ FindNorm(call.norm_id).norm_type = "prohibition"
    /\ \E i \in EntriesOf(call.agent_id) :
          Matches(log_entries[i].action, FindNorm(call.norm_id).action)
    /\ ret.status = "not_applicable"

\* C3 (no-role universality): check_norm_applicability answers applies = true
\* for every agent when the norm's role is absent or empty.
C3_NoRoleAppliesToAll ==
    (/\ call.op = "check_norm_applicability"
     /\ HasNorm(call.norm_id)
     /\ ~Truthy(FindNorm(call.norm_id).role)) =>
        ret.applies = TRUE

C3_Witness ==
    /\ call.op = "check_norm_applicability"
    /\ HasNorm(call.norm_id)
    /\ FindNorm(call.norm_id).role = <<>>
    /\ infer_agent_role(call.agent_id).inferred_role # None
    /\ ret.applies = TRUE

\* C4 (permission non-punitiveness): a permission that applies to the agent
\* always gets the status fulfilled, whatever the agent did.
C4_PermissionAlwaysFulfilled ==
    Evaluated("permission") => ret.status = "fulfilled"

\* C5 (prohibition monotonicity): adding one entry of the agent whose action
\* matches the prohibited action never turns violated into fulfilled; the
\* verdict stays or moves from fulfilled to violated.
C5_ProhibitionMonotone ==
    (/\ call.op = "recheck"
     /\ HasNorm(call.norm_id)
     /\ FindNorm(call.norm_id).norm_type = "prohibition"
     /\ RecordSays(call.norm_id, call.agent_id, TRUE)
     /\ Matches(call.added, FindNorm(call.norm_id).action)) =>
        /\ ~(prev.val.status = "violated" /\ ret.status = "fulfilled")
        /\ (prev.val.status # ret.status =>
                prev.val.status = "fulfilled" /\ ret.status = "violated")

C5_Witness ==
    /\ call.op = "recheck"
    /\ HasNorm(call.norm_id)
    /\ FindNorm(call.norm_id).norm_type = "prohibition"
    /\ RecordSays(call.norm_id, call.agent_id, TRUE)
    /\ Matches(call.added, FindNorm(call.norm_id).action)
    /\ prev.val.status = "fulfilled"
    /\ ret.status = "violated"

ScenarioAssembler ==
    /\ norms = <<Norm("n1", "obligation", sAssembler, sAssembleSkateboardM, None)>>
    /\ log_entries = MkLog(<<Raw(sAssembler1, sAssembleSkateboard)>>)

C7_ScenarioAssembler ==
    (pc = "done" /\ ScenarioAssembler) =>
        /\ Len(role_mapping) = 1
        /\ role_mapping[1].agent_id = sAssembler1
        /\ role_mapping[1].inferred_role = sAssembler
        /\ role_mapping[1].confidence = "substring"
        /\ Len(applicability_matrix) = 1
        /\ applicability_matrix[1].applies = TRUE
        /\ Len(compliance_results) = 1
        /\ compliance_results[1].status = "fulfilled"
        /\ Len(compliance_results[1].evidence) = 1
        /\ compliance_results[1].evidence[1].match_type = "exact"

C7_Witness == pc = "done" /\ ScenarioAssembler

\* the (entry, target) pairs of an obligation that match
ObligationPairs ==
    LET norm == FindNorm(call.norm_id)
    IN  {p \in EntriesOf(call.agent_id) \X {"mission", "action"} :
            /\ Truthy(norm[p[2]])
            /\ Matches(log_entries[p[1]].action, norm[p[2]])}

\* C8 (obligation): an applicable obligation is fulfilled exactly when some
\* action of the agent matches norm.mission or norm.action, with one evidence
\* item per matching (entry, target) pair; otherwise, also without any action,
\* it is violated with empty evidence.
C8_Obligation ==
    Evaluated("obligation") =>
        /\ ret.status = "fulfilled" <=> ObligationPairs # {}
        /\ ret.status \in {"fulfilled", "violated"}
        /\ Len(ret.evidence) = Cardinality(ObligationPairs)
        /\ \A p \in ObligationPairs : Cited(p[1], FindNorm(call.norm_id)[p[2]])

C8_Witness ==
    /\ Evaluated("obligation")
    /\ ret.status = "fulfilled"
    /\ Len(ret.evidence) > Cardinality(EntriesOf(call.agent_id))

\* the entries of the agent that match the prohibited action
ProhibitionHits ==
    {i \in EntriesOf(call.agent_id) :
        Matches(log_entries[i].action, FindNorm(call.norm_id).action)}

\* C9 (prohibition): for an applicable prohibition and an agent with at least
\* one action, the verdict is violated exactly when some action matches
\* norm.action, with one evidence item per matching entry, and fulfilled with
\* empty evidence otherwise.
C9_Prohibition ==
    (Evaluated("prohibition") /\ EntriesOf(call.agent_id) # {}) =>
        /\ ret.status = "violated" <=> ProhibitionHits # {}
        /\ ret.status \in {"fulfilled", "violated"}
        /\ Len(ret.evidence) = Cardinality(ProhibitionHits)
        /\ \A i \in ProhibitionHits : Cited(i, FindNorm(call.norm_id).action)

C9_Witness ==
    /\ Evaluated("prohibition")
    /\ ret.status = "violated"
    /\ Len(ret.evidence) > 1

\* the entries of the agent that match norm.action or norm.mission
PermissionHitsEither ==
    LET norm == FindNorm(call.norm_id)
    IN  {i \in EntriesOf(call.agent_id) :
            \/ Matches(log_entries[i].action, norm.action)
            \/ Matches(log_entries[i].action, norm.mission)}

\* C10 as stated (permission usage): every action that matches norm.action or
\* norm.mission is recorded as usage evidence, and the reasoning says "used"
\* exactly when there is such an action.
C10_PermissionUsageEither ==
    Evaluated("permission") =>
        /\ \A i \in PermissionHitsEither :
              \E k \in DOMAIN ret.evidence :
                  ret.evidence[k].entry_id = log_entries[i].entry_id
        /\ ret.reasoning.kind = "permission_used" <=> PermissionHitsEither # {}

\* the single target of a permission: norm.action when present, else norm.mission
PermissionTarget == Or(FindNorm(call.norm_id).action, FindNorm(call.norm_id).mission)

PermissionHits ==
    {i \in EntriesOf(call.agent_id) : Matches(log_entries[i].action, PermissionTarget)}

\* C10 as amended (permission usage): every action that matches the
\* permission's target, which is norm.action when present and norm.mission
\* otherwise, is recorded as one usage evidence item, and the reasoning says
\* "used" exactly when there is such an action.
C10_PermissionUsage ==
    Evaluated("permission") =>
        /\ \A i \in PermissionHits : Cited(i, PermissionTarget)
        /\ Len(ret.evidence) = Cardinality(PermissionHits)
        /\ ret.reasoning.kind = "permission_used" <=> PermissionHits # {}

C10_Witness ==
    /\ Evaluated("permission")
    /\ Truthy(FindNorm(call.norm_id).action)
    /\ Truthy(FindNorm(call.norm_id).mission)
    /\ PermissionHits # {}
    /\ PermissionHitsEither # PermissionHits
    /\ ret.reasoning.kind = "permission_used"

\* C11 (zero recorded actions): when a prohibition or a permission applies to
\* an agent that has no entry in the log, check_compliance returns a verdict
\* with empty evidence whose status is not violated.
C11_ZeroActionsNoViolation ==
    (/\ call.op = "check_compliance"
     /\ HasNorm(call.norm_id)
     /\ FindNorm(call.norm_id).norm_type \in {"prohibition", "permission"}
     /\ RecordSays(call.norm_id, call.agent_id, TRUE)
     /\ EntriesOf(call.agent_id) = {}) =>
        /\ ret.evidence = <<>>
        /\ ret.status # "violated"

\* the four tests of the similarity cascade, on the normalized strings
TestExact(action, target) ==
    _normalize_action_or_mission(action) = _normalize_action_or_mission(target)

TestContainsMission(action, target) ==
    contains(_normalize_action_or_mission(target), _normalize_action_or_mission(action))

TestMissionContainsAction(action, target) ==
    contains(_normalize_action_or_mission(action), _normalize_action_or_mission(target))

WordsOf(s) == Range(split(_normalize_action_or_mission(s)))

TestKeywordOverlap(action, target) ==
    2 * Cardinality(WordsOf(action) \cap WordsOf(target)) >= Cardinality(WordsOf(target))

\* C12 (cascade order): for a non-empty target, _mission_action_match returns
\* the tag of the first test that succeeds in the order exact, contains_mission,
\* mission_contains_action, keyword_overlap, with matches = true, and returns
\* (false, no_match) exactly when none of the four succeeds.
C12_MatchOrder ==
    (call.op = "_mission_action_match" /\ Truthy(call.mission)) =>
        LET exact == TestExact(call.action, call.mission)
            contains_mission == TestContainsMission(call.action, call.mission)
            mission_contains_action == TestMissionContainsAction(call.action, call.mission)
            keyword_overlap == TestKeywordOverlap(call.action, call.mission)
        IN  /\ ret.match_type = "exact" <=> exact
            /\ ret.match_type = "contains_mission" <=> ~exact /\ contains_mission
            /\ ret.match_type = "mission_contains_action" <=>
                  ~exact /\ ~contains_mission /\ mission_contains_action
            /\ ret.match_type = "keyword_overlap" <=>
                  /\ ~exact /\ ~contains_mission /\ ~mission_contains_action
                  /\ keyword_overlap
            /\ ret.match_type = "no_match" <=>
                  /\ ~exact /\ ~contains_mission /\ ~mission_contains_action
                  /\ ~keyword_overlap
            /\ ret.matches <=> ret.match_type # "no_match"
            /\ ret.match_type \in {"exact", "contains_mission", "mission_contains_action",
                                   "keyword_overlap", "no_match"}

\* a keyword-overlap answer on a pair for which the earlier tests all fail
C12_Witness ==
    /\ call.op = "_mission_action_match"
    /\ Truthy(call.mission)
    /\ ret.match_type = "keyword_overlap"
    /\ Cardinality(WordsOf(call.mission)) = 2
    /\ Cardinality(WordsOf(call.action) \cap WordsOf(call.mission)) = 1

\* a string with letter case and the underscore/hyphen/space distinction removed
Fold(s) ==
    [i \in 1..Len(s) |-> IF s[i] \in {"_", "-"} THEN " " ELSE LowerChar(s[i])]

\* a punctuation character: neither a word character nor whitespace
IsPunct(c) == ~IsWordChar(c) /\ ~IsSpace(c)

\* Fold with the punctuation characters removed as well
FoldNoPunct(s) == SelectSeq(Fold(s), LAMBDA c : ~IsPunct(c))

\* C13 as stated (normalization): an action and a non-empty target that differ
\* only in letter case, punctuation characters, or underscore/hyphen versus
\* space are reported as an exact match.
C13_ExactUpToPunctuation ==
    (/\ call.op = "_mission_action_match"
     /\ Truthy(call.mission)
     /\ FoldNoPunct(call.action) = FoldNoPunct(call.mission)) =>
        ret = [matches |-> TRUE, match_type |-> "exact"]

\* C13 as amended (normalization): an action and a non-empty target that differ
\* only in letter case or in underscore/hyphen versus space are reported as an
\* exact match; punctuation is kept, so a pair reported as exact is equal after
\* lowercasing, turning underscores and hyphens into spaces and trimming.
C13_ExactUpToCaseAndSeparators ==
    (call.op = "_mission_action_match" /\ Truthy(call.mission)) =>
        /\ Fold(call.action) = Fold(call.mission) =>
              ret = [matches |-> TRUE, match_type |-> "exact"]
        /\ ret.match_type = "exact" =>
              strip(Fold(call.action)) = strip(Fold(call.mission))

C13_Witness ==
    /\ call.op = "_mission_action_match"
    /\ Truthy(call.mission)
    /\ Fold(call.action) = Fold(call.mission)
    /\ \E i \in DOMAIN call.action : call.action[i] = "A"
    /\ \E i \in DOMAIN call.action :
          call.action[i] \in {" ", "-"} /\ call.mission[i] = "_"
    /\ ret.match_type = "exact"

\* the rank of a confidence tier: exact > {substring, substring_reverse} > partial
Tier(confidence) ==
    CASE confidence = "exact" -> 3
      [] confidence \in {"substring", "substring_reverse"} -> 2
      [] confidence = "partial" -> 1
      [] OTHER -> 0

\* the norms whose role matches the agent, and the tier of each match
MatchingNorms(agent_id) ==
    {i \in DOMAIN norms : /\ Truthy(norms[i].role)
                          /\ _fuzzy_role_match(agent_id, norms[i].role).matches}

TierAt(agent_id, i) == Tier(_fuzzy_role_match(agent_id, norms[i].role).confidence)

\* the tier held after the first k norms have been examined
TierAfter(agent_id, k) ==
    Tier(inferLoop(SubSeq(norms, 1, k), 1, agent_id, None, "none").best_confidence)

\* C14 (highest tier wins): infer_agent_role returns a role that matches the
\* agent, at the highest confidence tier any candidate role achieves; the tier
\* held never goes down while the norms are examined; and the result is
\* (None, unknown) exactly when no role matches.
C14_HighestTier ==
    call.op = "infer_agent_role" =>
        LET a == call.agent_id
            matching == MatchingNorms(a)
        IN  /\ matching = {} <=> ret.inferred_role = None
            /\ ret.inferred_role = None <=> ret.confidence = "unknown"
            /\ matching # {} =>
                  /\ \E i \in matching :
                        /\ norms[i].role = ret.inferred_role
                        /\ _fuzzy_role_match(a, norms[i].role).confidence = ret.confidence
                  /\ \A i \in matching : TierAt(a, i) <= Tier(ret.confidence)
            /\ \A k \in 1..Len(norms) : TierAfter(a, k - 1) <= TierAfter(a, k)

\* a lower-tier match comes first and a higher-tier match replaces it
C14_Witness ==
    /\ call.op = "infer_agent_role"
    /\ Len(norms) = 2
    /\ MatchingNorms(call.agent_id) = {1, 2}
    /\ TierAt(call.agent_id, 1) = 1
    /\ TierAt(call.agent_id, 2) = 2
    /\ ret.inferred_role = norms[2].role
    /\ ret.confidence = "substring"

\* the first norm whose role matches the agent at the highest tier achieved
FirstAtTopTier(agent_id) ==
    LET matching == MatchingNorms(agent_id)
        top == {i \in matching : \A j \in matching : TierAt(agent_id, j) <= TierAt(agent_id, i)}
    IN  CHOOSE i \in top : \A j \in top : i <= j

\* C15 (tie-break): when several roles match the agent at the same tier, two
\* exact matches included, infer_agent_role returns the role of the first such
\* norm in list order.
C15_FirstOfEqualTierWins ==
    (call.op = "infer_agent_role" /\ MatchingNorms(call.agent_id) # {}) =>
        ret.inferred_role = norms[FirstAtTopTier(call.agent_id)].role

\* the role stored for an agent by build_role_mapping
StoredRole(agent_id) ==
    role_mapping[CHOOSE k \in DOMAIN role_mapping :
                    role_mapping[k].agent_id = agent_id].inferred_role

\* the matrix record build_applicability_matrix produced for norms[i] and agents[j]
MatrixRecord(i, j) == applicability_matrix[(i - 1) * Len(agents) + j]

\* C16 (applicability is equality with the stored role): once the matrix is
\* built from norms with unique ids, the record of every norm with a non-empty
\* role and every agent has applies = true exactly when the inferred_role
\* stored for the agent in the role mapping equals norm.role as a string.
C16_AppliesIffStoredRole ==
    (pc \in {"matrix", "checker", "done"} /\ UniqueNormIds) =>
        \A i \in DOMAIN norms, j \in DOMAIN agents :
            /\ MatrixRecord(i, j).norm_id = norms[i].norm_id
            /\ MatrixRecord(i, j).agent_id = agents[j]
            /\ Truthy(norms[i].role) =>
                  (MatrixRecord(i, j).applies <=> StoredRole(agents[j]) = norms[i].role)

\* a role that matches the agent id exactly, but is not the stored role, does not apply
C16_Witness ==
    /\ pc = "done"
    /\ UniqueNormIds
    /\ \E i, k \in DOMAIN norms, j \in DOMAIN agents :
          /\ Truthy(norms[i].role)
          /\ MatrixRecord(i, j).applies
          /\ _fuzzy_role_match(agents[j], norms[k].role).matches
          /\ ~MatrixRecord(k, j).applies

\* the position in the log of the first entry of an agent
FirstIndex(agent_id) ==
    CHOOSE i \in EntriesOf(agent_id) : \A j \in EntriesOf(agent_id) : i <= j

\* the rank of an agent among the agents of the log, by first appearance
FirstSeenRank(agent_id) ==
    Cardinality({b \in LogAgents : FirstIndex(b) <= FirstIndex(agent_id)})

\* C17 (output order): check_all_compliance emits |norms| x |agents| verdicts,
\* norm-major: the verdict at position (i - 1) * |agents| + r is the one of the
\* i-th norm of the list and of the agent that is the r-th to appear in the log.
C17_NormMajorOrder ==
    pc = "done" =>
        /\ Len(compliance_results) = Len(norms) * Cardinality(LogAgents)
        /\ \A i \in DOMAIN norms, a \in LogAgents :
              LET v == compliance_results[(i - 1) * Cardinality(LogAgents)
                                          + FirstSeenRank(a)]
              IN  v.norm_id = norms[i].norm_id /\ v.agent_id = a

\* two different norms and two agents, the matcher's agent list being in the
\* other order than the log
C17_Witness ==
    /\ pc = "done"
    /\ Len(norms) = 2
    /\ norms[1].norm_id # norms[2].norm_id
    /\ Cardinality(LogAgents) = 2
    /\ agents[1] = log_entries[2].agent_id
    /\ compliance_results[2].agent_id = log_entries[2].agent_id
    /\ compliance_results[3].norm_id = norms[2].norm_id

\* C18 (unresolvable norm id): for a norm_id that is not in the norm list,
\* check_compliance returns a verdict (it does not raise) with status unknown,
\* empty evidence and the "not found" reasoning, whatever the matrix says
\* about the pair and whether or not the agent has actions.
C18_UnknownNormId ==
    (call.op = "check_compliance" /\ ~HasNorm(call.norm_id)) =>
        /\ ret.norm_id = call.norm_id
        /\ ret.agent_id = call.agent_id
        /\ ret.status = "unknown"
        /\ ret.evidence = <<>>
        /\ ret.reasoning.kind = "norm_not_found"

\* the matrix has no record for the pair and the agent has no actions
C18_Witness ==
    /\ call.op = "check_compliance"
    /\ ~HasNorm(call.norm_id)
    /\ ~RecordSays(call.norm_id, call.agent_id, TRUE)
    /\ ~RecordSays(call.norm_id, call.agent_id, FALSE)
    /\ EntriesOf(call.agent_id) = {}
    /\ log_entries # <<>>
    /\ ret.status = "unknown"

\* what every evaluation reads
SharedState == <<norms, log_entries, applicability_matrix, agent_actions>>

C20_MatrixDeterministic ==
    call.op = "build_applicability_matrix" =>
        /\ Len(ret) = Len(norms) * Cardinality(LogAgents)
        /\ prev.set => ret = prev.val

\* C21 (literal evidence): every evidence item of a verdict has the entry_id
\* and the action of a log entry of the verdict's own agent, and its
\* match_type is the tag _mission_action_match returns, with matches = true,
\* for that action against the target the item records.
C21_EvidenceIsLiteral ==
    call.op = "check_compliance" =>
        /\ ret.agent_id = call.agent_id
        /\ \A k \in DOMAIN ret.evidence :
              \E i \in EntriesOf(ret.agent_id) :
                  /\ ret.evidence[k].entry_id = log_entries[i].entry_id
                  /\ ret.evidence[k].action = log_entries[i].action
                  /\ _mission_action_match(log_entries[i].action, ret.evidence[k].target)
                        = [matches |-> TRUE, match_type |-> ret.evidence[k].match_type]

\* evidence with two different tags, in a log that also holds another agent's
\* entry with a matching action
C21_Witness ==
    /\ call.op = "check_compliance"
    /\ \E j, k \in DOMAIN ret.evidence :
          ret.evidence[j].match_type # ret.evidence[k].match_type
    /\ \E i \in DOMAIN log_entries :
          /\ log_entries[i].agent_id # call.agent_id
          /\ Matches(log_entries[i].action, ret.evidence[1].target)

\* the temporal marker of a log entry or of an evidence item
Marker(e) ==
    IF temporal_strategy = "timestamp" THEN e.timestamp[1] ELSE e.sequence_number[1]

Ascending(q) == \A i, j \in DOMAIN q : i < j => Marker(q[i]) <= Marker(q[j])

\* C22: the action history the evaluator holds for each agent, and the evidence
\* of each verdict, are in ascending order of the temporal marker (timestamp
\* under TIMESTAMP, sequence number under SEQUENCE), whatever the order of the
\* entries in the parsed log
C22_HistoryOrderedByMarker ==
    /\ \A k \in DOMAIN agent_actions : Ascending(agent_actions[k].actions)
    /\ \A r \in DOMAIN compliance_results : Ascending(compliance_results[r].evidence)

\* C23: every norm parse_norms returns, from an XML, a JSON or a YAML file, has
\* both role and mission populated or action populated; a record that fails
\* this is dropped by ingestion
C23_NormContentInvariant ==
    pc = "parsed" =>
        \A i \in DOMAIN norms :
            \/ Truthy(norms[i].role) /\ Truthy(norms[i].mission)
            \/ Truthy(norms[i].action)

\* C24: role inference matches on the parts of a role name split at its
\* separators: with the role 'ws_trunks' among the norms (and no other role),
\* agent 'wa_trunks1' is inferred to have role 'ws_trunks', by a partial match
\* on the part 'trunks'
C24_RolePartsMatch ==
    ( /\ call.op = "infer_agent_role"
      /\ call.agent_id = sWaTrunks1
      /\ norms # <<>>
      /\ \A i \in DOMAIN norms : norms[i].role = sWsTrunks ) =>
        /\ ret.inferred_role = sWsTrunks
        /\ ret.confidence = "partial"

\* C25: _detect_temporal_strategy returns TIMESTAMP exactly when every raw log
\* entry carries a non-empty timestamp, and SEQUENCE otherwise, an empty log
\* included
C25_TimestampIffAllEntries ==
    call.op = "_detect_temporal_strategy" =>
        /\ ret.temporal_strategy \in {"timestamp", "sequence"}
        /\ ret.temporal_strategy = "timestamp" <=>
              /\ raw_logs # <<>>
              /\ \A i \in DOMAIN raw_logs : Truthy(raw_logs[i].timestamp)

\* C26: each agent is bound to at most one role: once the matrix is built from
\* norms with unique ids, all norms with a non-empty role whose record for one
\* agent has applies = true carry the same role string
C26_AtMostOneRole ==
    (pc \in {"matrix", "checker", "done", "profiled"} /\ UniqueNormIds) =>
        \A j \in DOMAIN agents : \A i1, i2 \in DOMAIN norms :
            ( /\ Truthy(norms[i1].role)
              /\ Truthy(norms[i2].role)
              /\ MatrixRecord(i1, j).applies
              /\ MatrixRecord(i2, j).applies ) => norms[i1].role = norms[i2].role

\* an agent whose id matches two distinct role names is bound by the norm of one only
C26_Witness ==
    /\ pc = "matrix"
    /\ UniqueNormIds
    /\ \E j \in DOMAIN agents : \E i1, i2 \in DOMAIN norms :
          /\ norms[i1].role # norms[i2].role
          /\ _fuzzy_role_match(agents[j], norms[i1].role).matches
          /\ _fuzzy_role_match(agents[j], norms[i2].role).matches
          /\ MatrixRecord(i1, j).applies
          /\ ~MatrixRecord(i2, j).applies

\* the norm ids whose matrix record for the agent has the given applies value
NormsWithRecord(agent_id, applies) ==
    {applicability_matrix[k].norm_id :
        k \in {m \in DOMAIN applicability_matrix :
                  /\ applicability_matrix[m].agent_id = agent_id
                  /\ applicability_matrix[m].applies = applies}}

\* C27: in a full run, a verdict has status not_applicable exactly when the
\* matrix record of its (norm, agent) pair has applies = false, and the
\* applicable_norms list the profiler derives for an agent from the verdict
\* statuses holds exactly the norms whose matrix record for that agent has
\* applies = true
C27_NotApplicableIffRecord ==
    /\ pc \in {"done", "profiled"} =>
          \A r \in DOMAIN compliance_results :
              /\ \E k \in DOMAIN applicability_matrix :
                    /\ applicability_matrix[k].norm_id = compliance_results[r].norm_id
                    /\ applicability_matrix[k].agent_id = compliance_results[r].agent_id
              /\ \A k \in DOMAIN applicability_matrix :
                    ( /\ applicability_matrix[k].norm_id = compliance_results[r].norm_id
                      /\ applicability_matrix[k].agent_id = compliance_results[r].agent_id ) =>
                        (compliance_results[r].status = "not_applicable"
                            <=> ~applicability_matrix[k].applies)
    /\ pc = "profiled" =>
          /\ DOMAIN profile.agents = LogAgents
          /\ \A a \in DOMAIN profile.agents :
                Range(profile.agents[a].applicable_norms) = NormsWithRecord(a, TRUE)

\* a profiled agent with a norm that applies and was violated, and a norm that
\* does not apply
C27_Witness ==
    /\ pc = "profiled"
    /\ \E a \in DOMAIN profile.agents :
          /\ NormsWithRecord(a, FALSE) # {}
          /\ \E r \in DOMAIN compliance_results :
                /\ compliance_results[r].agent_id = a
                /\ compliance_results[r].status = "violated"
                /\ compliance_results[r].norm_id \in Range(profile.agents[a].applicable_norms)

\* C28: an action that is empty after normalization (the empty string, or only
\* underscores, hyphens and spaces) never matches a norm target
C28_EmptyActionNeverMatches ==
    ( /\ call.op = "_mission_action_match"
      /\ _normalize_action_or_mission(call.action) = <<>> ) => ~ret.matches

\* C29: whenever _mission_action_match reports keyword_overlap, the normalized
\* action and target share at least one whitespace-delimited word
C29_OverlapSharesAWord ==
    (call.op = "_mission_action_match" /\ ret.match_type = "keyword_overlap") =>
        /\ ret.matches
        /\ WordsOf(call.action) \cap WordsOf(call.mission) # {}

\* the action holds the two words of the target in the other order
C29_Witness ==
    /\ call.op = "_mission_action_match"
    /\ ret.match_type = "keyword_overlap"
    /\ Cardinality(WordsOf(call.action) \cap WordsOf(call.mission)) = 2

\* C30: under the SEQUENCE strategy, build_execution_timeline lists all log
\* entries in ascending sequence-number order and the temporal_marker of every
\* item is the sequence number of its entry, the entry with sequence number 0
\* included
C30_TimelineMarkers ==
    (pc = "profiled" /\ profile.temporal_strategy = "sequence") =>
        LET timeline == profile.execution_timeline
        IN  /\ Len(timeline) = Len(log_entries)
            /\ \A i \in DOMAIN log_entries :
                  \E k \in DOMAIN timeline :
                      /\ timeline[k].entry_id = log_entries[i].entry_id
                      /\ timeline[k].agent_id = log_entries[i].agent_id
                      /\ timeline[k].action = log_entries[i].action
                      /\ timeline[k].temporal_marker = log_entries[i].sequence_number
            /\ \A k1, k2 \in DOMAIN timeline :
                  k1 < k2 => timeline[k1].temporal_marker[1] <= timeline[k2].temporal_marker[1]

=============================================================================
